---------------------------- MODULE Spec2Model ----------------------------
(***************************************************************************)
(* A model of radome's routing and instance-directory layer.               *)
(*                                                                         *)
(* Strings are sequences of one-character strings, so that the string      *)
(* operations of the source (split, toLowerCase, endsWith, slice, the      *)
(* regular expression of extractInstancePath, template literals) are       *)
(* computed character by character.  An optional value (null / undefined   *)
(* in the source) is a sequence of length 0 or 1.                          *)
(***************************************************************************)
EXTENDS Integers, Sequences, FiniteSets, TLC

VARIABLES
    \* extractSubdomain applied to one host (SpecSubdomain)
    subHost, subBase, subOut,
    \* extractInstancePath applied to one request URL (SpecPath)
    pathUrl, pathOut,
    \* the instance directory: const instances = new Map<string, InstanceRecord>()
    instances,
    \* one inbound request of the proxy (SpecProxy)
    variant,      \* which startProxy serves: "subdomain", "direct" or "tunnel"
    pc,           \* "idle", "received", "responded", "forwarded", "crashed"
    hostHeader,   \* req.headers.host ?? ""
    inboundUrl,   \* req.url as received
    lookups,      \* the identifiers passed to getInstance for this request
    attempts,     \* the calls of proxy.web for this request
    upTarget,     \* the target of the upstream request
    upUrl,        \* the req.url sent upstream
    resStatus,    \* res.statusCode, 0 while there is no response
    peer,         \* a second request the proxy serves at the same time
    resBody,
    \* deriveStatusFromPod applied to one pod (SpecStatus)
    pod, derived,
    \* the cluster and the operations of the directory (SpecDir)
    services,     \* the Service objects of the namespace
    deployments,  \* the Deployment objects of the namespace
    now,          \* the clock: new Date() and the API server's creationTimestamp
    usedIds,      \* the identifiers uuidv4() has returned
    createOp,     \* the createInstance call in flight
    removeOp,     \* the removeInstance call in flight
    syncOp,       \* the syncInstancesFromCluster call in flight
    syncLog,      \* history: the listings and the result of the last completed syncs
    fate,         \* history: what became of each identifier uuidv4() may return
    ret,          \* what the directory call that has just returned hands to its caller
    hydrateOps,   \* the hydrateInstance calls in flight
    listOps,      \* the refreshing listInstances calls in flight
    apiReq,       \* the POST /instances request whose createInstance is in flight
    apiRes,       \* the response POST /instances sent last, with the body it answers
    catalog,      \* the rows of the allowed_images table
    users,        \* the rows of the users table
    lastUserId,   \* the AUTOINCREMENT sequence of the users table
    sessions,     \* the sessions table: token -> userId
    issuedTo,     \* history: the tokens POST /auth/login has returned, and to whom
    loggedOut,    \* history: the tokens a POST /auth/logout answered 204 carried
    authRes,      \* the response to the last request of the control API
    reqMethod,    \* the method of the request under the CORS rules
    corsRes,      \* what the CORS middleware of the control API did with it
    hdrInbound,   \* the headers of the inbound request, by lower-case name
    hdrInjected,  \* requestOptions.headers of the Kubernetes configuration, as entries
    hdrUpstream,  \* the headers of the upstream request after the proxyReq hook
    \* the rewriting of one upstream Location header in tunnel mode (SpecLocation)
    locCtx,       \* the routing context of the request: upstreamBase and clientBase
    locIn,        \* the Location header of the upstream response
    locOut        \* the Location header delivered to the client

subVars   == <<subHost, subBase, subOut>>
pathVars  == <<pathUrl, pathOut>>
proxyVars == <<variant, pc, hostHeader, inboundUrl, lookups, attempts, upTarget, upUrl,
               resStatus, resBody, peer>>
statusVars == <<pod, derived>>
dirVars   == <<services, deployments, now, usedIds, createOp, removeOp, syncOp, syncLog,
              fate, ret>>
callVars  == <<hydrateOps, listOps, apiReq, apiRes>>
locVars   == <<locCtx, locIn, locOut>>
hdrVars   == <<hdrInbound, hdrInjected, hdrUpstream>>
corsVars  == <<reqMethod, corsRes>>
authVars  == <<users, lastUserId, sessions, issuedTo, loggedOut, authRes>>
vars      == <<subVars, pathVars, instances, proxyVars, statusVars, dirVars, callVars, locVars,
               catalog, hdrVars, corsVars, authVars>>

\* What the actions of one specification leave alone.
subFrame    == <<pathVars, instances, proxyVars, statusVars, dirVars, callVars, locVars, catalog,
                hdrVars,
                corsVars,
                authVars>>
pathFrame   == <<subVars, instances, proxyVars, statusVars, dirVars, callVars, locVars, catalog,
                hdrVars,
                corsVars,
                authVars>>
proxyFrame  == <<subVars, pathVars, statusVars, dirVars, callVars, locVars, catalog,
                hdrVars,
                corsVars,
                authVars>>
statusFrame == <<subVars, pathVars, instances, proxyVars, dirVars, callVars, locVars, catalog,
                hdrVars,
                corsVars,
                authVars>>
otherFrame  == <<subVars, pathVars, proxyVars, statusVars, locVars, catalog,
                hdrVars,
                corsVars,
                authVars>>
dirFrame    == <<otherFrame, callVars>>
locFrame    == <<subVars, pathVars, instances, proxyVars, statusVars, dirVars, callVars, catalog,
                hdrVars,
                corsVars,
                authVars>>

(***************************************************************************)
(* Bounds of the model.                                                    *)
(***************************************************************************)
MaxHost == 4
MaxTail == 4
MaxProxyTail == 2
MaxContainers == 2
MaxClock == 1
MaxSuffix == 3
MaxLists == 2
MaxHydrations == 2
MaxUserId == 2

(***************************************************************************)
(* Optional values and strings.                                            *)
(***************************************************************************)
None == <<>>
Some(v) == <<v>>
IsSome(o) == Len(o) = 1
Get(o) == o[1]

SeqsUpTo(S, n) == UNION {[1..k -> S] : k \in 0..n}

StartsWith(s, t) ==
    /\ Len(t) <= Len(s)
    /\ SubSeq(s, 1, Len(t)) = t

EndsWith(s, t) ==
    /\ Len(t) <= Len(s)
    /\ SubSeq(s, Len(s) - Len(t) + 1, Len(s)) = t

\* The least index of character c in s, 0 when s has none.
IndexOf(s, c) ==
    IF \E i \in 1..Len(s) : s[i] = c
    THEN CHOOSE i \in 1..Len(s) : s[i] = c /\ \A j \in 1..(i - 1) : s[j] # c
    ELSE 0

\* s.split(c)[0]
SplitHead(s, c) ==
    IF IndexOf(s, c) = 0 THEN s ELSE SubSeq(s, 1, IndexOf(s, c) - 1)

\* s.slice(from0): the characters from 0-based index from0 on
SliceFrom(s, from0) == SubSeq(s, from0 + 1, Len(s))

\* s.slice(0, -n); -0 is 0 in JavaScript, so slice(0, -0) is the empty string
SliceDropLast(s, n) ==
    IF n = 0 THEN <<>> ELSE SubSeq(s, 1, Len(s) - n)

LowerChar(c) ==
    CASE c = "A" -> "a"
      [] c = "B" -> "b"
      [] c = "R" -> "r"
      [] OTHER -> c

ToLowerCase(s) == [i \in 1..Len(s) |-> LowerChar(s[i])]

(***************************************************************************)
(* Identifier resolver: the subdomain candidate.                           *)
(***************************************************************************)
\* Mutant: the check of the separating dot is dropped.
extractSubdomain_NoDotCheck(host, baseDomain) ==
    LET normalizedHost == ToLowerCase(SplitHead(host, ":"))
        normalizedBase == ToLowerCase(baseDomain)
        prefix         == SliceDropLast(normalizedHost, Len(normalizedBase))
        subdomain      == SliceDropLast(prefix, 1)
    IN  IF ~EndsWith(normalizedHost, normalizedBase) THEN None
        ELSE IF subdomain = <<>> THEN None
        ELSE Some(subdomain)

extractSubdomain(host, baseDomain) ==
    LET normalizedHost == ToLowerCase(SplitHead(host, ":"))
        normalizedBase == ToLowerCase(baseDomain)
        prefix         == SliceDropLast(normalizedHost, Len(normalizedBase))
        subdomain      == SliceDropLast(prefix, 1)
    IN  IF ~EndsWith(normalizedHost, normalizedBase) THEN None
        ELSE IF ~EndsWith(prefix, <<".">>) THEN None
        ELSE IF subdomain = <<>> THEN None
        ELSE Some(subdomain)

HostChars == {"a", "A", "r", "R", ".", ":"}
Hosts == SeqsUpTo(HostChars, MaxHost)
\* RADOME_BASE_DOMAIN: a configured, non-empty domain, in any letter case
BaseDomains == {<<"r">>, <<"R">>, <<"a", ".", "r">>}

SubIdle ==
    /\ subHost = <<>>
    /\ subBase = <<"r">>
    /\ subOut = <<"idle">>

SubInit ==
    /\ subHost \in Hosts
    /\ subBase \in BaseDomains
    /\ subOut = <<"pending">>

ApplyExtractSubdomain ==
    /\ subOut = <<"pending">>
    /\ subOut' = <<"done", extractSubdomain(subHost, subBase)>>
    /\ UNCHANGED <<subHost, subBase>>
    /\ UNCHANGED subFrame


(***************************************************************************)
(* new URL(reqUrl, "http://radome.local"): the WHATWG URL parser on a       *)
(* request target without a scheme.  The fragment and the query are cut    *)
(* off, a target that starts with "//" names a host (and does not parse    *)
(* when that host is empty), a target without a leading "/" is relative to *)
(* the base path "/", and "." and ".." segments are resolved.              *)
(***************************************************************************)
RECURSIVE SplitOn(_, _)
SplitOn(s, c) ==
    IF IndexOf(s, c) = 0 THEN <<s>>
    ELSE <<SplitHead(s, c)>> \o SplitOn(SliceFrom(s, IndexOf(s, c)), c)

RECURSIVE DropLeading(_, _)
DropLeading(s, c) ==
    IF s # <<>> /\ s[1] = c THEN DropLeading(Tail(s), c) ELSE s

PopSegment(out) ==
    IF out = <<>> THEN <<>> ELSE SubSeq(out, 1, Len(out) - 1)

RECURSIVE ShortenPath(_, _, _)
ShortenPath(segs, i, out) ==
    IF i > Len(segs) THEN out
    ELSE LET seg  == segs[i]
             last == i = Len(segs)
         IN  IF seg = <<".", ".">>
             THEN ShortenPath(segs, i + 1,
                      IF last THEN Append(PopSegment(out), <<>>) ELSE PopSegment(out))
             ELSE IF seg = <<".">>
             THEN ShortenPath(segs, i + 1, IF last THEN Append(out, <<>>) ELSE out)
             ELSE ShortenPath(segs, i + 1, Append(out, seg))

RECURSIVE JoinPath(_)
JoinPath(segs) ==
    IF segs = <<>> THEN <<>> ELSE <<"/">> \o Head(segs) \o JoinPath(Tail(segs))

\* The pathname of a path that starts with "/".
NormalizePath(p) == JoinPath(ShortenPath(SplitOn(Tail(p), "/"), 1, <<>>))

ParseUrl(reqUrl) ==
    LET noFragment == SplitHead(reqUrl, "#")
        beforeQ    == SplitHead(noFragment, "?")
        query      == IF IndexOf(noFragment, "?") = 0 THEN <<>>
                      ELSE SliceFrom(noFragment, IndexOf(noFragment, "?"))
        authority  == StartsWith(beforeQ, <<"/", "/">>)
        afterSlash == DropLeading(beforeQ, "/")
        host       == SplitHead(afterSlash, "/")
        rawPath    == IF authority THEN SliceFrom(afterSlash, Len(host))
                      ELSE IF StartsWith(beforeQ, <<"/">>) THEN beforeQ
                      ELSE <<"/">> \o beforeQ
    IN  [ok       |-> ~authority \/ host # <<>>,
         pathname |-> IF rawPath = <<>> THEN <<"/">> ELSE NormalizePath(rawPath),
         search   |-> IF query = <<>> THEN <<>> ELSE <<"?">> \o query]

(***************************************************************************)
(* Identifier resolver: the path candidate.                                *)
(***************************************************************************)
InstancesPrefix == <<"/", "i", "n", "s", "t", "a", "n", "c", "e", "s">>

\* parsed.pathname.match(/^\/instances\/([^/]+)(\/.*)?$/): <<id, rest>> or None
MatchInstancePath(pathname) ==
    LET rem  == SliceFrom(pathname, Len(InstancesPrefix) + 1)
        id   == SplitHead(rem, "/")
        rest == SliceFrom(rem, Len(id))
    IN  IF ~StartsWith(pathname, InstancesPrefix \o <<"/">>) THEN None
        ELSE IF id = <<>> THEN None
        ELSE Some(<<id, rest>>)

\* new URL throws a TypeError on a target it cannot parse
extractInstancePathThrows(reqUrl) ==
    /\ reqUrl # <<>>
    /\ ~ParseUrl(reqUrl).ok

\* Mutant: the query string is not appended to the rewritten path.
extractInstancePath_DropsQuery(reqUrl) ==
    LET parsed == ParseUrl(reqUrl)
        match  == MatchInstancePath(parsed.pathname)
        restPath == IF Get(match)[2] = <<>> THEN <<"/">> ELSE Get(match)[2]
    IN  IF reqUrl = <<>> THEN None
        ELSE IF ~IsSome(match) THEN None
        ELSE Some([instanceId  |-> Get(match)[1],
                   proxiedPath |-> restPath])

\* The path candidate of a request URL: the identifier and the rewritten path.
extractInstancePath(reqUrl) ==
    LET parsed == ParseUrl(reqUrl)
        match  == MatchInstancePath(parsed.pathname)
        restPath == IF Get(match)[2] = <<>> THEN <<"/">> ELSE Get(match)[2]
    IN  IF reqUrl = <<>> THEN None
        ELSE IF ~IsSome(match) THEN None
        ELSE Some([instanceId  |-> Get(match)[1],
                   proxiedPath |-> restPath \o parsed.search])

UrlChars == {"/", "a", ".", "?", "#"}
UrlLeads == {<<>>, InstancesPrefix, InstancesPrefix \o <<"/", "a">>,
             <<"/", "i", "n", "s", "t", "a", "n", "c", "e">>}
UrlInputs(n) == {lead \o tail : lead \in UrlLeads, tail \in SeqsUpTo(UrlChars, n)}

PathIdle ==
    /\ pathUrl = <<"/">>
    /\ pathOut = <<"idle">>

PathInit ==
    /\ pathUrl \in UrlInputs(MaxTail)
    /\ pathOut = <<"pending">>

ApplyExtractInstancePath ==
    /\ pathOut = <<"pending">>
    /\ pathOut' = IF extractInstancePathThrows(pathUrl) THEN <<"throws">>
                  ELSE <<"done", extractInstancePath(pathUrl)>>
    /\ UNCHANGED pathUrl
    /\ UNCHANGED pathFrame

(***************************************************************************)
(* Instance records, as createInstance builds them.                        *)
(***************************************************************************)
\* process.env.RADOME_KUBE_NAMESPACE ?? "default"
namespace == <<"n", "s">>

AgentPrefix == <<"r", "a", "d", "o", "m", "e", "-", "a", "g", "e", "n", "t", "-">>
ClusterLocal == <<".", "s", "v", "c", ".", "c", "l", "u", "s", "t", "e", "r", ".",
                  "l", "o", "c", "a", "l">>

Digits == <<"0", "1", "2", "3", "4", "5", "6", "7", "8", "9">>

\* String(n) of a non-negative integer
RECURSIVE DecStr(_)
DecStr(n) ==
    IF n < 10 THEN <<Digits[n + 1]>>
    ELSE DecStr(n \div 10) \o <<Digits[(n % 10) + 1]>>

\* Mutant: the service host is the bare service name.
NewInstanceRecord_BareHost(id, image, containerPort, name, createdAt, status) ==
    [id             |-> id,
     image          |-> image.name,
     dockerHubUrl   |-> image.dockerHubUrl,
     containerPort  |-> containerPort,
     namespace      |-> namespace,
     deploymentName |-> AgentPrefix \o id,
     serviceName    |-> AgentPrefix \o id,
     serviceHost    |-> AgentPrefix \o id,
     createdAt      |-> createdAt,
     status         |-> status,
     name           |-> name]

\* The record createInstance inserts for id.
NewInstanceRecord(id, image, containerPort, name, createdAt, status) ==
    LET serviceName == AgentPrefix \o id
    IN  [id             |-> id,
         image          |-> image.name,
         dockerHubUrl   |-> image.dockerHubUrl,
         containerPort  |-> containerPort,
         namespace      |-> namespace,
         deploymentName |-> AgentPrefix \o id,
         serviceName    |-> serviceName,
         serviceHost    |-> serviceName \o <<".">> \o namespace \o ClusterLocal,
         createdAt      |-> createdAt,
         status         |-> status,
         name           |-> name]

\* Mutant: the lookup falls back to some stored record when the key is absent.
getInstance_Fallback(id) ==
    IF id \in DOMAIN instances THEN Some(instances[id])
    ELSE IF DOMAIN instances # {}
         THEN Some(instances[CHOOSE k \in DOMAIN instances : TRUE])
         ELSE None

\* instances.get(id)
getInstance(id) ==
    IF id \in DOMAIN instances THEN Some(instances[id]) ELSE None

(***************************************************************************)
(* The proxy: startProxy's request handler, in its three variants.         *)
(***************************************************************************)
\* RADOME_BASE_DOMAIN of the running proxy
baseDomain == <<"r">>

AllowedImages ==
    {[name |-> "langchain/langchain", dockerHubUrl |-> "hub/langchain", defaultPort |-> 8000],
     [name |-> "modelcontextprotocol/server", dockerHubUrl |-> "hub/mcp", defaultPort |-> 3000]}

ImageOfPort(p) == CHOOSE im \in AllowedImages : im.defaultPort = p

ProxyIds == {<<"a">>, <<"x", "y", "z">>}
ProxyPortOf(id) == IF id = <<"a">> THEN 8000 ELSE 3000

\* The directories the proxy may find: records createInstance has inserted.
ProxyDirectories ==
    {[id \in D |-> NewInstanceRecord(id, ImageOfPort(ProxyPortOf(id)), ProxyPortOf(id),
                                     None, 0, "starting")] : D \in SUBSET ProxyIds}

ProxyHosts ==
    {<<>>, <<"r">>, <<"a", ".", "r">>, <<"A", ".", "R">>, <<"a", ".", "r", ":", "8", "0">>,
     <<"x", "y", "z", ".", "r">>, <<"b", ".", "r">>, <<"a", "r">>}

ExampleUrl == InstancesPrefix \o <<"/", "x", "y", "z", "/", "f", "o", "o", "?", "q", "=", "1">>
ProxyUrls == UrlInputs(MaxProxyTail) \cup {ExampleUrl}

\* Mutant: the port is left out of the service reference.
buildKubeServicePath_NoPort(instance, requestUrl) ==
    LET path == requestUrl
        normalizedPath == IF StartsWith(path, <<"/">>) THEN path ELSE <<"/">> \o path
        basePath == <<"/", "a", "p", "i", "/", "v", "1", "/", "n", "a", "m", "e", "s",
                      "p", "a", "c", "e", "s", "/">> \o instance.namespace
                    \o <<"/", "s", "e", "r", "v", "i", "c", "e", "s", "/">>
                    \o instance.serviceName
                    \o <<"/", "p", "r", "o", "x", "y">>
    IN  basePath \o normalizedPath

\* The request path of the API server's service proxy for one instance.
buildKubeServicePath(instance, requestUrl) ==
    LET path == requestUrl
        normalizedPath == IF StartsWith(path, <<"/">>) THEN path ELSE <<"/">> \o path
        basePath == <<"/", "a", "p", "i", "/", "v", "1", "/", "n", "a", "m", "e", "s",
                      "p", "a", "c", "e", "s", "/">> \o instance.namespace
                    \o <<"/", "s", "e", "r", "v", "i", "c", "e", "s", "/">>
                    \o instance.serviceName \o <<":">> \o DecStr(instance.containerPort)
                    \o <<"/", "p", "r", "o", "x", "y">>
    IN  basePath \o (IF normalizedPath = <<"/">> THEN <<"/">> ELSE normalizedPath)

\* `http://${instance.serviceHost}:${instance.containerPort}`
DirectTarget(instance) ==
    <<"h", "t", "t", "p", ":", "/", "/">> \o instance.serviceHost
        \o <<":">> \o DecStr(instance.containerPort)

\* getKubeProxyConfig().server, the target of the tunnel variant's proxy server
kubeApiServer == <<"h", "t", "t", "p", "s", ":", "/", "/", "k", "8", "s">>

\* Mutant: the path candidate is preferred to the subdomain candidate.
ResolveInstanceId_PathFirst(v, subdomain, instancePath) ==
    IF v # "subdomain" /\ IsSome(instancePath) THEN Some(Get(instancePath).instanceId)
    ELSE subdomain

\* subdomain ?? instancePath?.instanceId ?? null (the first variant has no path candidate)
ResolveInstanceId(v, subdomain, instancePath) ==
    IF IsSome(subdomain) THEN subdomain
    ELSE IF v # "subdomain" /\ IsSome(instancePath) THEN Some(Get(instancePath).instanceId)
    ELSE None

PeerIdle == [pc |-> "idle", id |-> <<>>, attempts |-> 0, err |-> None, status |-> 0, body |-> ""]

ProxyIdle ==
    /\ variant = "subdomain"
    /\ pc = "off"
    /\ hostHeader = <<>>
    /\ inboundUrl = <<>>
    /\ lookups = <<>>
    /\ attempts = 0
    /\ upTarget = None
    /\ upUrl = None
    /\ resStatus = 0
    /\ resBody = ""
    /\ peer = PeerIdle

ProxyInit ==
    /\ variant \in {"subdomain", "direct", "tunnel"}
    /\ instances \in ProxyDirectories
    /\ pc = "idle"
    /\ hostHeader = <<>>
    /\ inboundUrl = <<>>
    /\ lookups = <<>>
    /\ attempts = 0
    /\ upTarget = None
    /\ upUrl = None
    /\ resStatus = 0
    /\ resBody = ""
    /\ peer = PeerIdle

\* http.createServer delivers one request to the handler.
ReceiveRequest ==
    /\ pc = "idle"
    /\ \E h \in ProxyHosts, u \in ProxyUrls :
          /\ hostHeader' = h
          /\ inboundUrl' = u
    /\ pc' = "received"
    /\ UNCHANGED <<variant, instances, lookups, attempts, upTarget, upUrl, resStatus, resBody,
                   peer>>
    /\ UNCHANGED proxyFrame

Respond(status, body) ==
    /\ pc' = "responded"
    /\ resStatus' = status
    /\ resBody' = body
    /\ UNCHANGED <<attempts, upTarget, upUrl>>

\* The request handler of startProxy, up to its call of proxy.web.
HandleRequest ==
    /\ pc = "received"
    /\ UNCHANGED <<variant, instances, hostHeader, inboundUrl, peer>>
    /\ UNCHANGED proxyFrame
    /\ IF variant # "subdomain" /\ extractInstancePathThrows(inboundUrl)
       THEN \* the TypeError of new URL leaves the handler: no response is written
            /\ pc' = "crashed"
            /\ UNCHANGED <<lookups, attempts, upTarget, upUrl, resStatus, resBody>>
       ELSE LET subdomain    == extractSubdomain(hostHeader, baseDomain)
                instancePath == IF variant = "subdomain" THEN None
                                ELSE extractInstancePath(inboundUrl)
                instanceId   == ResolveInstanceId(variant, subdomain, instancePath)
                instance     == getInstance(Get(instanceId))
                url          == IF IsSome(instancePath) THEN Get(instancePath).proxiedPath
                                ELSE inboundUrl
            IN  IF ~IsSome(instanceId)
                THEN /\ Respond(400, "Missing instance identifier")
                     /\ UNCHANGED lookups
                ELSE /\ lookups' = Append(lookups, Get(instanceId))
                     /\ IF ~IsSome(instance)
                        THEN Respond(404, "Instance not found.")
                        ELSE /\ pc' = "forwarded"
                             /\ attempts' = attempts + 1
                             /\ upTarget' = IF variant = "tunnel" THEN Some(kubeApiServer)
                                            ELSE Some(DirectTarget(Get(instance)))
                             /\ upUrl' = IF variant = "tunnel"
                                         THEN Some(buildKubeServicePath(Get(instance), url))
                                         ELSE Some(url)
                             /\ UNCHANGED <<resStatus, resBody>>

\* The errors http-proxy hands to the callback of proxy.web.
TransportErrors ==
    {None, Some([message |-> None]), Some([message |-> Some("connect ECONNREFUSED")]),
     Some([message |-> Some("socket hang up")])}

\* Mutant: the body is the message alone.
ProxyErrorBody_MessageOnly(err) ==
    IF IsSome(err) /\ IsSome(Get(err).message) THEN Get(Get(err).message) ELSE "unknown"

\* `Proxy error: ${err?.message ?? "unknown"}`
ProxyErrorBody(err) ==
    "Proxy error: " \o (IF IsSome(err) /\ IsSome(Get(err).message) THEN Get(Get(err).message)
                        ELSE "unknown")

\* proxy.web's error callback: the upstream request failed.
UpstreamError ==
    /\ pc = "forwarded"
    /\ pc' = "responded"
    /\ resStatus' = 502
    /\ \E err \in TransportErrors : resBody' = ProxyErrorBody(err)
    /\ UNCHANGED <<variant, instances, hostHeader, inboundUrl, lookups, attempts, upTarget, upUrl,
                   peer>>
    /\ UNCHANGED proxyFrame

\* The upstream answers and its response is piped to the client.
UpstreamResponse ==
    /\ pc = "forwarded"
    /\ pc' = "responded"
    /\ resStatus' = 200
    /\ resBody' = "upstream"
    /\ UNCHANGED <<variant, instances, hostHeader, inboundUrl, lookups, attempts, upTarget, upUrl,
                   peer>>
    /\ UNCHANGED proxyFrame

peerFrame == <<variant, instances, pc, hostHeader, inboundUrl, lookups, attempts, upTarget, upUrl,
               resStatus, resBody>>

\* The handler serves a second request, one that names an instance of the
\* directory, and forwards it with its own res and its own error callback.
PeerHandle ==
    /\ peer = PeerIdle
    /\ pc # "idle"
    /\ \E id \in DOMAIN instances :
          peer' = [pc |-> "forwarded", id |-> id, attempts |-> 1, err |-> None,
                   status |-> 0, body |-> ""]
    /\ UNCHANGED peerFrame
    /\ UNCHANGED proxyFrame

\* The error callback of the second request.
PeerUpstreamError ==
    /\ peer.pc = "forwarded"
    /\ \E err \in TransportErrors :
          peer' = [peer EXCEPT !.pc = "responded", !.err = Some(err), !.status = 502,
                               !.body = ProxyErrorBody(err)]
    /\ UNCHANGED peerFrame
    /\ UNCHANGED proxyFrame

\* The upstream of the second request answers.
PeerUpstreamResponse ==
    /\ peer.pc = "forwarded"
    /\ peer' = [peer EXCEPT !.pc = "responded", !.status = 200, !.body = "upstream"]
    /\ UNCHANGED peerFrame
    /\ UNCHANGED proxyFrame

(***************************************************************************)
(* The proxyReq hook of the tunnel variant.  The upstream request starts    *)
(* with the headers of the inbound request (http-proxy copies req.headers); *)
(* Node keeps header names in lower case and setHeader is case-insensitive. *)
(***************************************************************************)
LowerName(name) ==
    CASE name = "Authorization" -> "authorization"
      [] name = "X-Extra"       -> "x-extra"
      [] OTHER                  -> name

\* proxyReq.setHeader(key, value)
setHeader(outgoing, key, value) ==
    [n \in DOMAIN outgoing \cup {LowerName(key)} |->
        IF n = LowerName(key) THEN value ELSE outgoing[n]]

\* Object.entries(headers).forEach(([key, value]) => { if (value !== undefined)
\* proxyReq.setHeader(key, value) })
RECURSIVE proxyReqHook(_, _)
proxyReqHook(outgoing, entries) ==
    IF entries = <<>> THEN outgoing
    ELSE LET key   == Head(entries)[1]
             value == Head(entries)[2]
         IN  proxyReqHook(IF IsSome(value) THEN setHeader(outgoing, key, Get(value))
                          ELSE outgoing,
                          Tail(entries))

InboundHeaders ==
    UNION {[names -> {"inbound", "other"}] : names \in SUBSET {"authorization", "accept"}}

\* requestOptions.headers after kubeConfig.applyToRequest: a bearer token, or
\* nothing, and possibly an entry whose value is undefined.
InjectedEntries ==
    {<<"Authorization", Some("Bearer cluster-token")>>, <<"Authorization", None>>,
     <<"X-Extra", Some("injected")>>, <<"X-Extra", None>>}
InjectedHeaders ==
    {<<>>} \cup {<<e>> : e \in InjectedEntries}
           \cup {<<e, f>> : e \in {x \in InjectedEntries : x[1] = "Authorization"},
                            f \in {x \in InjectedEntries : x[1] = "X-Extra"}}

HdrIdle ==
    /\ hdrInbound = << >>
    /\ hdrInjected = <<>>
    /\ hdrUpstream = <<"idle">>

HdrInit ==
    /\ hdrInbound \in InboundHeaders
    /\ hdrInjected \in InjectedHeaders
    /\ hdrUpstream = <<"pending">>

hdrFrame == <<subVars, pathVars, instances, proxyVars, statusVars, dirVars, callVars, locVars,
              catalog, corsVars, authVars>>

\* http-proxy emits proxyReq for a forwarded request and the hook runs.
ProxyReqHook ==
    /\ hdrUpstream = <<"pending">>
    /\ hdrUpstream' = <<"sent", proxyReqHook(hdrInbound, hdrInjected)>>
    /\ UNCHANGED <<hdrInbound, hdrInjected>>
    /\ UNCHANGED hdrFrame

(***************************************************************************)
(* CORS.  The control API answers the preflight in its first middleware;   *)
(* the request handler of the proxy never reads req.method.                *)
(***************************************************************************)
Methods == {"GET", "POST", "DELETE", "OPTIONS"}

CorsHeaders ==
    [Origin |-> "ADMIN_UI_ORIGIN", Vary |-> "Origin", Credentials |-> "true",
     Headers |-> "Content-Type, Authorization", Methods |-> "GET,POST,PUT,DELETE,OPTIONS"]

CorsIdle ==
    /\ reqMethod = "GET"
    /\ corsRes = <<"idle">>

CorsInit ==
    /\ reqMethod \in Methods
    /\ corsRes = <<"pending">>

corsFrame == <<subVars, pathVars, instances, proxyVars, statusVars, dirVars, callVars, locVars,
               catalog, hdrVars, authVars>>

\* app.use((req, res, next) => { res.header(...); if (req.method === "OPTIONS")
\* { res.sendStatus(204); return; } next(); })
CorsMiddleware ==
    /\ corsRes = <<"pending">>
    /\ corsRes' = IF reqMethod = "OPTIONS" THEN <<"answered", 204, CorsHeaders>>
                  ELSE <<"next", CorsHeaders>>
    /\ UNCHANGED reqMethod
    /\ UNCHANGED corsFrame

\* JSON values of a request body, with the type typeof reports
Undefined == <<"undefined">>
JsonString(s) == <<"string", s>>
JsonNumber(n) == <<"number", n>>
TypeOf(v) == v[1]
Truthy(v) == v # Undefined /\ v # JsonString("") /\ v # JsonNumber(0)

(***************************************************************************)
(* Sessions of the control API: POST /auth/login, the authenticate         *)
(* middleware, POST /auth/logout and the routes behind authenticate.       *)
(***************************************************************************)
Bearer == <<"B", "e", "a", "r", "e", "r">>

\* String.prototype.trim over the one white-space character of the model
RECURSIVE TrimEnd(_)
TrimEnd(s) == IF s # <<>> /\ s[Len(s)] = " " THEN TrimEnd(SubSeq(s, 1, Len(s) - 1)) ELSE s
Trim(s) == TrimEnd(DropLeading(s, " "))

\* s.replace(pattern, ""): the first occurrence of the pattern is removed
ReplaceFirst(s, pattern) ==
    LET at == {i \in 1..(Len(s) - Len(pattern) + 1) :
                  SubSeq(s, i, i + Len(pattern) - 1) = pattern}
        first == CHOOSE i \in at : \A j \in at : i <= j
    IN  IF at = {} THEN s
        ELSE SubSeq(s, 1, first - 1) \o SubSeq(s, first + Len(pattern), Len(s))

\* uuidv4(): the tokens of the model
Tokens == {<<"1">>, <<"2">>, <<"3">>}

\* The Authorization headers a client sends: none, the scheme alone, and for a
\* token the usual form, one with more white space, one without the scheme and
\* one with the scheme in lower case.
AuthHeaders ==
    {None, Some(Bearer), Some(Bearer \o <<" ">>)}
    \cup {Some(Bearer \o <<" ">> \o t) : t \in Tokens}
    \cup {Some(Bearer \o <<" ", " ">> \o t \o <<" ">>) : t \in Tokens}
    \cup {Some(t) : t \in Tokens}
    \cup {Some(<<"b", "e", "a", "r", "e", "r", " ">> \o t) : t \in Tokens}

\* bcrypt.hashSync / bcrypt.compareSync
hashSync(password) == <<"bcrypt", password>>
compareSync(password, passwordHash) == passwordHash = <<"bcrypt", password>>

\* seedDefaults: the administrator of a fresh database
AdminUser ==
    [id |-> 1, username |-> "admin", passwordHash |-> hashSync("radome"), role |-> "admin"]

\* The bodies of POST /auth/login.
LoginBodies ==
    [username : {Undefined, JsonNumber(1), JsonString("admin"), JsonString("dev"),
                 JsonString("ghost")},
     password : {Undefined, JsonString("radome"), JsonString("secret"), JsonString("wrong")}]

getUserByUsername(username) ==
    LET rows == {u \in users : u.username = username}
    IN  IF rows = {} THEN None ELSE Some(CHOOSE u \in rows : TRUE)

getUserById(id) ==
    LET rows == {u \in users : u.id = id}
    IN  IF rows = {} THEN None ELSE Some(CHOOSE u \in rows : TRUE)

getSession(token) ==
    IF token \in DOMAIN sessions THEN Some([token |-> token, userId |-> sessions[token]])
    ELSE None

createSession(table, token, userId) ==
    [t \in DOMAIN table \cup {token} |-> IF t = token THEN userId ELSE table[t]]

\* Mutant: the row stays in the table.
deleteSession_Keeps(table, token) == table

deleteSession(table, token) ==
    [t \in DOMAIN table \ {token} |-> table[t]]

\* authenticate: <<"reject", 401, error>>, or <<"next", token, user>> when it
\* calls next().
authenticate(authHeader) ==
    IF ~IsSome(authHeader) \/ ~StartsWith(Get(authHeader), Bearer \o <<" ">>)
    THEN <<"reject", 401, "missing bearer token">>
    ELSE LET token   == Trim(SliceFrom(Get(authHeader), Len(Bearer \o <<" ">>)))
             session == getSession(token)
             user    == getUserById(Get(session).userId)
         IN  IF ~IsSome(session) THEN <<"reject", 401, "invalid token">>
             ELSE IF ~IsSome(user) THEN <<"reject", 401, "user not found">>
             ELSE <<"next", token, Get(user)>>

NoAuthRes ==
    [n |-> 0, route |-> "none", header |-> None, status |-> 0, body |-> "", next |-> FALSE,
     ran |-> FALSE, token |-> None]

\* The response to a request; n tells one request from the next.
AuthResponse(route, header, status, body, next, ran, token) ==
    [n |-> 1 - authRes.n, route |-> route, header |-> header, status |-> status,
     body |-> body, next |-> next, ran |-> ran, token |-> token]

AuthIdle ==
    /\ users = {}
    /\ lastUserId = 0
    /\ sessions = << >>
    /\ issuedTo = << >>
    /\ loggedOut = {}
    /\ authRes = NoAuthRes

\* initDb on a fresh database.
AuthInit ==
    /\ users = {AdminUser}
    /\ lastUserId = 1
    /\ sessions = << >>
    /\ issuedTo = << >>
    /\ loggedOut = {}
    /\ authRes = NoAuthRes

authFrame == <<subVars, pathVars, instances, proxyVars, statusVars, dirVars, callVars, locVars,
               catalog, hdrVars, corsVars>>

\* app.post("/auth/login")
PostAuthLogin ==
    /\ \E body \in LoginBodies :
          LET user == getUserByUsername(body.username[2])
          IN  IF TypeOf(body.username) # "string" \/ TypeOf(body.password) # "string"
              THEN /\ authRes' = AuthResponse("POST /auth/login", None, 400,
                                     "username and password required", FALSE, TRUE, None)
                   /\ UNCHANGED <<sessions, issuedTo>>
              ELSE IF ~IsSome(user) \/ ~compareSync(body.password[2], Get(user).passwordHash)
              THEN /\ authRes' = AuthResponse("POST /auth/login", None, 401,
                                     "invalid credentials", FALSE, TRUE, None)
                   /\ UNCHANGED <<sessions, issuedTo>>
              ELSE \E token \in Tokens \ DOMAIN issuedTo :
                      /\ sessions' = createSession(sessions, token, Get(user).id)
                      /\ issuedTo' = createSession(issuedTo, token, Get(user).id)
                      /\ authRes' = AuthResponse("POST /auth/login", None, 200, "token",
                                        FALSE, TRUE, Some(token))
    /\ UNCHANGED <<users, lastUserId, loggedOut>>
    /\ UNCHANGED authFrame

\* app.post("/auth/logout", authenticate, ...)
PostAuthLogout ==
    /\ \E header \in AuthHeaders :
          LET auth == authenticate(header)
          IN  IF auth[1] # "next"
              THEN /\ authRes' = AuthResponse("POST /auth/logout", header, auth[2], auth[3],
                                     FALSE, FALSE, None)
                   /\ UNCHANGED <<sessions, loggedOut>>
              ELSE LET authHeader == IF IsSome(header) THEN Get(header) ELSE <<>>
                       token      == Trim(ReplaceFirst(authHeader, Bearer))
                   IN  /\ sessions' = deleteSession(sessions, token)
                       /\ loggedOut' = loggedOut \cup {auth[2]}
                       /\ authRes' = AuthResponse("POST /auth/logout", header, 204, "",
                                         TRUE, TRUE, None)
    /\ UNCHANGED <<users, lastUserId, issuedTo>>
    /\ UNCHANGED authFrame

\* app.get("/images", authenticate, ...): a route behind authenticate alone.
GetImages ==
    /\ \E header \in AuthHeaders :
          LET auth == authenticate(header)
          IN  authRes' = IF auth[1] # "next"
                         THEN AuthResponse("GET /images", header, auth[2], auth[3],
                                           FALSE, FALSE, None)
                         ELSE AuthResponse("GET /images", header, 200, "images",
                                           TRUE, TRUE, None)
    /\ UNCHANGED <<users, lastUserId, sessions, issuedTo, loggedOut>>
    /\ UNCHANGED authFrame

\* app.post("/users", authenticate, requireAdmin, ...) with the body
\* {username: "dev", password: "secret", role: "user"}.
PostUsers ==
    /\ lastUserId < MaxUserId
    /\ \E header \in AuthHeaders :
          LET auth == authenticate(header)
          IN  IF auth[1] # "next"
              THEN /\ authRes' = AuthResponse("POST /users", header, auth[2], auth[3],
                                     FALSE, FALSE, None)
                   /\ UNCHANGED <<users, lastUserId>>
              ELSE IF auth[3].role # "admin"
              THEN /\ authRes' = AuthResponse("POST /users", header, 403, "admin required",
                                     TRUE, FALSE, None)
                   /\ UNCHANGED <<users, lastUserId>>
              ELSE IF IsSome(getUserByUsername("dev"))
              THEN \* the UNIQUE constraint of username: createUser throws
                   /\ authRes' = AuthResponse("POST /users", header, 400, "UNIQUE constraint",
                                     TRUE, TRUE, None)
                   /\ UNCHANGED <<users, lastUserId>>
              ELSE /\ users' = users \cup {[id |-> lastUserId + 1, username |-> "dev",
                                            passwordHash |-> hashSync("secret"),
                                            role |-> "user"]}
                   /\ lastUserId' = lastUserId + 1
                   /\ authRes' = AuthResponse("POST /users", header, 201, "user",
                                     TRUE, TRUE, None)
    /\ UNCHANGED <<sessions, issuedTo, loggedOut>>
    /\ UNCHANGED authFrame

\* An operator deletes a row of the users table in the database file.  The
\* sessions of the user go with it when the connection enforces foreign keys
\* (ON DELETE CASCADE), and stay when it does not.
ExternalDeleteUser ==
    /\ \E u \in users :
          /\ users' = users \ {u}
          /\ \/ sessions' = sessions
             \/ sessions' = [t \in {x \in DOMAIN sessions : sessions[x] # u.id} |-> sessions[t]]
    /\ UNCHANGED <<lastUserId, issuedTo, loggedOut, authRes>>
    /\ UNCHANGED authFrame

(***************************************************************************)
(* Workload status deriver.  A pod is its status: phase, message, reason   *)
(* and the list of container statuses; an absent field is None.            *)
(***************************************************************************)
\* a || b on optional strings: the first that is present and not empty
OrElse(a, b) == IF IsSome(a) /\ Get(a) # "" THEN a ELSE b

ImagePullReasons == {"ErrImagePull", "ImagePullBackOff", "InvalidImageName"}

\* containerStatuses.map((status) => status.state?.waiting).find(Boolean)
FirstWaiting(containerStatuses) ==
    LET waiting == SelectSeq(containerStatuses, LAMBDA st : IsSome(st.waiting))
    IN  IF waiting = <<>> THEN None ELSE waiting[1].waiting

\* Mutant: a pod counts as ready as soon as one container is ready.
deriveStatusFromPod_SomeReady(p) ==
    LET phase          == IF IsSome(p.phase) THEN Get(p.phase) ELSE "Pending"
        statusMessage  == OrElse(p.message, OrElse(p.reason, None))
        containerStatuses == p.containerStatuses
        waitingState   == FirstWaiting(containerStatuses)
        waitingReason  == IF IsSome(waitingState) THEN Get(waitingState).reason ELSE None
        waitingMessage == IF IsSome(waitingState) THEN Get(waitingState).message ELSE None
        allReady       == /\ Len(containerStatuses) > 0
                          /\ \E i \in 1..Len(containerStatuses) : containerStatuses[i].ready
    IN  IF IsSome(waitingReason) /\ Get(waitingReason) \in ImagePullReasons
        THEN [status |-> "error", statusMessage |-> OrElse(waitingMessage, waitingReason)]
        ELSE IF phase = "Failed"
        THEN [status |-> "error", statusMessage |-> statusMessage]
        ELSE IF phase = "Succeeded"
        THEN [status |-> "stopped", statusMessage |-> statusMessage]
        ELSE IF phase = "Running"
        THEN [status |-> IF allReady THEN "running" ELSE "starting",
              statusMessage |-> OrElse(waitingMessage, statusMessage)]
        ELSE [status |-> "starting", statusMessage |-> OrElse(waitingMessage, statusMessage)]

deriveStatusFromPod(p) ==
    LET phase          == IF IsSome(p.phase) THEN Get(p.phase) ELSE "Pending"
        statusMessage  == OrElse(p.message, OrElse(p.reason, None))
        containerStatuses == p.containerStatuses
        waitingState   == FirstWaiting(containerStatuses)
        waitingReason  == IF IsSome(waitingState) THEN Get(waitingState).reason ELSE None
        waitingMessage == IF IsSome(waitingState) THEN Get(waitingState).message ELSE None
        allReady       == /\ Len(containerStatuses) > 0
                          /\ \A i \in 1..Len(containerStatuses) : containerStatuses[i].ready
    IN  IF IsSome(waitingReason) /\ Get(waitingReason) \in ImagePullReasons
        THEN [status |-> "error", statusMessage |-> OrElse(waitingMessage, waitingReason)]
        ELSE IF phase = "Failed"
        THEN [status |-> "error", statusMessage |-> statusMessage]
        ELSE IF phase = "Succeeded"
        THEN [status |-> "stopped", statusMessage |-> statusMessage]
        ELSE IF phase = "Running"
        THEN [status |-> IF allReady THEN "running" ELSE "starting",
              statusMessage |-> OrElse(waitingMessage, statusMessage)]
        ELSE [status |-> "starting", statusMessage |-> OrElse(waitingMessage, statusMessage)]

PodPhases == {None, Some("Pending"), Some("Running"), Some("Succeeded"), Some("Failed"),
              Some("Unknown")}
PodMessages == {[message |-> None, reason |-> None],
                [message |-> Some("pod message"), reason |-> None],
                [message |-> None, reason |-> Some("Evicted")]}
WaitingStates ==
    [reason  : {None, Some("ErrImagePull"), Some("ImagePullBackOff"), Some("InvalidImageName"),
                Some("ContainerCreating")},
     message : {None, Some("first message"), Some("second message")}]
\* a container that waits is not ready
ContainerStatuses ==
    {[waiting |-> None, ready |-> TRUE], [waiting |-> None, ready |-> FALSE]}
        \cup {[waiting |-> Some(w), ready |-> FALSE] : w \in WaitingStates}
Pods ==
    {[phase |-> ph, message |-> m.message, reason |-> m.reason, containerStatuses |-> cs] :
        ph \in PodPhases, m \in PodMessages, cs \in SeqsUpTo(ContainerStatuses, MaxContainers)}

(***************************************************************************)
(* The directory and the cluster (the variant of instances.ts with         *)
(* syncInstancesFromCluster).  An object of the cluster is a record of the *)
(* fields the directory reads; an absent field is None.                    *)
(***************************************************************************)
DirIds == {<<"a">>, <<"b">>}

\* What a caller may ask createInstance for.
CreateInputs ==
    {[image |-> ImageOfPort(3000), name |-> Some("my agent")]}

\* The Deployment createInstance posts, as the API server stores it.
DeploymentOf(id, input, ts) ==
    [name      |-> Some(AgentPrefix \o id),
     namespace |-> Some(namespace),
     label     |-> Some(id),
     ann       |-> input.name,
     image     |-> Some(input.image.name),
     port      |-> Some(input.image.defaultPort),
     ts        |-> Some(ts)]

\* The Service createInstance posts, as the API server stores it.
ServiceOf(id, input, ts) ==
    [name      |-> Some(AgentPrefix \o id),
     namespace |-> Some(namespace),
     label     |-> Some(id),
     ann       |-> input.name,
     port      |-> Some(input.image.defaultPort),
     ts        |-> Some(ts)]

\* a ?? b on optional values
Coalesce(a, b) == IF IsSome(a) THEN a ELSE b

\* Mutant: the identifier is taken from the name of the object.
resolveInstanceId_FromName(service, deployment) ==
    Coalesce(IF IsSome(service) THEN Get(service).name ELSE None,
             IF IsSome(deployment) THEN Get(deployment).name ELSE None)

\* service?.field, for an optional object and one of its optional fields
resolveInstanceId(service, deployment) ==
    Coalesce(IF IsSome(service) THEN Get(service).label ELSE None,
             IF IsSome(deployment) THEN Get(deployment).label ELSE None)

resolveInstanceName(service, deployment) ==
    Coalesce(IF IsSome(service) THEN Get(service).ann ELSE None,
             IF IsSome(deployment) THEN Get(deployment).ann ELSE None)

resolveContainerPort(service, deployment) ==
    Coalesce(IF IsSome(service) THEN Get(service).port ELSE None,
             IF IsSome(deployment) THEN Get(deployment).port ELSE None)

resolveImage(deployment) ==
    IF IsSome(deployment) THEN Get(deployment).image ELSE None

\* Mutant: createdAt is always the time of the call.
buildInstanceRecord_ClockOnly(service, deployment, clock) ==
    LET instanceId == resolveInstanceId(service, deployment)
        id == Get(instanceId)
        serviceName ==
            Get(Coalesce(IF IsSome(service) THEN Get(service).name ELSE None,
                Coalesce(IF IsSome(deployment) THEN Get(deployment).name ELSE None,
                         Some(AgentPrefix \o id))))
        serviceNamespace ==
            Get(Coalesce(IF IsSome(service) THEN Get(service).namespace ELSE None,
                Coalesce(IF IsSome(deployment) THEN Get(deployment).namespace ELSE None,
                         Some(namespace))))
        containerPort == resolveContainerPort(service, deployment)
        image == resolveImage(deployment)
    IN  IF ~IsSome(instanceId) THEN None
        ELSE IF ~IsSome(containerPort) \/ Get(containerPort) = 0 \/ ~IsSome(image) THEN None
        ELSE Some([id             |-> id,
                   image          |-> Get(image),
                   dockerHubUrl   |-> Get(image),
                   containerPort  |-> Get(containerPort),
                   namespace      |-> serviceNamespace,
                   deploymentName |->
                       Get(Coalesce(IF IsSome(deployment) THEN Get(deployment).name ELSE None,
                                    Some(AgentPrefix \o id))),
                   serviceName    |-> serviceName,
                   serviceHost    |-> serviceName \o <<".">> \o serviceNamespace \o ClusterLocal,
                   createdAt      |-> clock,
                   status         |-> "running",
                   name           |-> resolveInstanceName(service, deployment)])

\* The record of an instance from its Service and Deployment, None when it has
\* no identifier, port or image.  clock is new Date() at the call.
buildInstanceRecord(service, deployment, clock) ==
    LET instanceId == resolveInstanceId(service, deployment)
        id == Get(instanceId)
        serviceName ==
            Get(Coalesce(IF IsSome(service) THEN Get(service).name ELSE None,
                Coalesce(IF IsSome(deployment) THEN Get(deployment).name ELSE None,
                         Some(AgentPrefix \o id))))
        serviceNamespace ==
            Get(Coalesce(IF IsSome(service) THEN Get(service).namespace ELSE None,
                Coalesce(IF IsSome(deployment) THEN Get(deployment).namespace ELSE None,
                         Some(namespace))))
        containerPort == resolveContainerPort(service, deployment)
        image == resolveImage(deployment)
        createdAt ==
            Get(Coalesce(IF IsSome(service) THEN Get(service).ts ELSE None,
                Coalesce(IF IsSome(deployment) THEN Get(deployment).ts ELSE None,
                         Some(clock))))
    IN  IF ~IsSome(instanceId) THEN None
        ELSE IF ~IsSome(containerPort) \/ Get(containerPort) = 0 \/ ~IsSome(image) THEN None
        ELSE Some([id             |-> id,
                   image          |-> Get(image),
                   dockerHubUrl   |-> Get(image),
                   containerPort  |-> Get(containerPort),
                   namespace      |-> serviceNamespace,
                   deploymentName |->
                       Get(Coalesce(IF IsSome(deployment) THEN Get(deployment).name ELSE None,
                                    Some(AgentPrefix \o id))),
                   serviceName    |-> serviceName,
                   serviceHost    |-> serviceName \o <<".">> \o serviceNamespace \o ClusterLocal,
                   createdAt      |-> createdAt,
                   status         |-> "running",
                   name           |-> resolveInstanceName(service, deployment)])

\* deploymentsById.get(instanceId) over the listed Deployments
DeploymentById(deploymentItems, instanceId) ==
    LET labelled == {d \in deploymentItems : d.label = Some(instanceId)}
    IN  IF labelled = {} THEN None ELSE Some(CHOOSE d \in labelled : TRUE)

\* Mutant: the refill of the map stops after its first record.
NextInstances_Partial(serviceItems, deploymentItems, clock) ==
    LET recordOf(s) == buildInstanceRecord(Some(s),
                           DeploymentById(deploymentItems, Get(s.label)), clock)
        kept == {s \in serviceItems : IsSome(s.label) /\ IsSome(recordOf(s))}
        ids  == {Get(s.label) : s \in kept}
        first == IF ids = {} THEN {} ELSE {CHOOSE id \in ids : TRUE}
    IN  [id \in first |-> Get(recordOf(CHOOSE s \in kept : s.label = Some(id)))]

\* nextInstances of syncInstancesFromCluster: one record per listed Service that
\* has an identifier and builds a record.
NextInstances(serviceItems, deploymentItems, clock) ==
    LET recordOf(s) == buildInstanceRecord(Some(s),
                           DeploymentById(deploymentItems, Get(s.label)), clock)
        kept == {s \in serviceItems : IsSome(s.label) /\ IsSome(recordOf(s))}
        ids  == {Get(s.label) : s \in kept}
    IN  [id \in ids |-> Get(recordOf(CHOOSE s \in kept : s.label = Some(id)))]

StatusIdle ==
    /\ pod = [phase |-> None, message |-> None, reason |-> None, containerStatuses |-> <<>>]
    /\ derived = <<"idle">>

StatusInit ==
    /\ pod \in Pods
    /\ derived = <<"pending">>

\* refreshInstanceStatus derives the status of the latest pod.
DeriveStatus ==
    /\ derived = <<"pending">>
    /\ derived' = <<"done", deriveStatusFromPod(pod)>>
    /\ UNCHANGED pod
    /\ UNCHANGED statusFrame

(***************************************************************************)
(* The operations of the directory.  An await of the source is a point     *)
(* where the other operations may run; the effect of an API call on the    *)
(* cluster and the continuation that follows it are separate steps where   *)
(* the continuation changes the directory.  syncLog remembers the last two *)
(* runs of the synchronisation made while neither the cluster nor the map  *)
(* was changed by another operation.  fate remembers, for each identifier, *)
(* whether a createInstance for it is in flight ("creating"), failed, was  *)
(* cut by a restart ("aborted"), returned its record ("created"), and      *)
(* whether a removeInstance for it returned true ("removed").  ret is the  *)
(* value the call that returns in this step hands to its caller.           *)
(***************************************************************************)
NoSync == [svcs |-> None, deps |-> None]

\* A listInstances call that has not been made yet.
NoList == [pc |-> "idle", currentInstances |-> << >>, refreshed |-> << >>]

DirIdle ==
    /\ services = {}
    /\ deployments = {}
    /\ now = 0
    /\ usedIds = {}
    /\ createOp = None
    /\ removeOp = None
    /\ syncOp = NoSync
    /\ syncLog = <<>>
    /\ fate = [id \in DirIds |-> "unused"]
    /\ ret = None
    /\ hydrateOps = [k \in 1..MaxHydrations |-> None]
    /\ listOps = [k \in 1..MaxLists |-> NoList]
    /\ apiReq = None
    /\ apiRes = None
    /\ catalog = AllowedImages

DirInit ==
    /\ instances = << >>
    /\ DirIdle

\* Mutant: the map is replaced by the one entry.
MapSet_Alone(m, id, record) == [k \in {id} |-> record]

\* instances.set(id, record)
MapSet(m, id, record) ==
    [k \in DOMAIN m \cup {id} |-> IF k = id THEN record ELSE m[k]]

\* Mutant: the entry is left in the map.
MapDelete_Keeps(m, id) == m

\* instances.delete(id)
MapDelete(m, id) == [k \in DOMAIN m \ {id} |-> m[k]]

\* createInstance: uuidv4(), and the API server accepts the Deployment.
CreateDeployment ==
    /\ createOp = None
    /\ \E id \in DirIds \ usedIds, input \in CreateInputs :
          /\ usedIds' = usedIds \cup {id}
          /\ deployments' = deployments \cup {DeploymentOf(id, input, now)}
          /\ createOp' = Some([pc |-> "service", id |-> id, input |-> input])
          /\ fate' = [fate EXCEPT ![id] = "creating"]
    /\ syncLog' = <<>>
    /\ UNCHANGED <<instances, services, now, removeOp, syncOp>>
    /\ ret' = None
    /\ UNCHANGED dirFrame

\* createInstance: the API server rejects the Deployment and the call throws.
CreateDeploymentRejected ==
    /\ createOp = None
    /\ \E id \in DirIds \ usedIds :
          /\ usedIds' = usedIds \cup {id}
          /\ fate' = [fate EXCEPT ![id] = "failed"]
    /\ UNCHANGED <<instances, services, deployments, now, createOp, removeOp, syncOp, syncLog>>
    /\ ret' = None
    /\ UNCHANGED dirFrame

\* createInstance: the API server accepts the Service.
CreateService ==
    /\ IsSome(createOp)
    /\ Get(createOp).pc = "service"
    /\ services' = services \cup {ServiceOf(Get(createOp).id, Get(createOp).input, now)}
    /\ createOp' = Some([Get(createOp) EXCEPT !.pc = "insert"])
    /\ syncLog' = <<>>
    /\ UNCHANGED <<instances, deployments, now, usedIds, removeOp, syncOp>>
    /\ UNCHANGED fate
    /\ ret' = None
    /\ UNCHANGED dirFrame

\* createInstance: the API server rejects the Service and the call throws.
CreateServiceRejected ==
    /\ IsSome(createOp)
    /\ Get(createOp).pc = "service"
    /\ createOp' = None
    /\ UNCHANGED <<instances, services, deployments, now, usedIds, removeOp, syncOp, syncLog>>
    /\ fate' = [fate EXCEPT ![Get(createOp).id] = "failed"]
    /\ ret' = None
    /\ UNCHANGED dirFrame

\* createInstance: the record is stored and returned.
InsertRecord(status) ==
    /\ IsSome(createOp)
    /\ Get(createOp).pc = "insert"
    /\ LET op == Get(createOp)
       IN  instances' = MapSet(instances, op.id,
               NewInstanceRecord(op.id, op.input.image, op.input.image.defaultPort,
                                 op.input.name, now, status))
    /\ createOp' = None
    /\ syncLog' = <<>>
    /\ UNCHANGED <<services, deployments, now, usedIds, removeOp, syncOp>>
    /\ fate' = [fate EXCEPT ![Get(createOp).id] = "created"]
    /\ ret' = None
    /\ UNCHANGED dirFrame

CreateInsert == InsertRecord("running")

\* The same step in the variant of instances.ts that refreshes on read: the
\* record starts as "starting".
CreateInsertStarting == InsertRecord("starting")

\* removeInstance(id) finds the record and asks for the deletion of its Service.
RemoveStart ==
    /\ removeOp = None
    /\ \E id \in DOMAIN instances :
          removeOp' = Some([pc |-> "service", id |-> id, instance |-> instances[id]])
    /\ UNCHANGED <<instances, services, deployments, now, usedIds, createOp, syncOp, syncLog>>
    /\ UNCHANGED fate
    /\ ret' = None
    /\ UNCHANGED dirFrame

\* removeInstance: the Service is deleted; a Service that is gone is a 404, and the
\* call throws.
RemoveService ==
    /\ IsSome(removeOp)
    /\ Get(removeOp).pc = "service"
    /\ LET named == {s \in services : s.name = Some(Get(removeOp).instance.serviceName)}
       IN  IF named = {}
           THEN /\ removeOp' = None
                /\ UNCHANGED services
                /\ ret' = Some(<<"removeInstance throws", Get(removeOp).id, "404">>)
           ELSE /\ services' = services \ named
                /\ ret' = None
                /\ removeOp' = Some([Get(removeOp) EXCEPT !.pc = "deployment"])
    /\ syncLog' = <<>>
    /\ UNCHANGED <<instances, deployments, now, usedIds, createOp, syncOp>>
    /\ UNCHANGED fate
    /\ UNCHANGED dirFrame

\* removeInstance: the Deployment is deleted, or is gone and the call throws.
RemoveDeployment ==
    /\ IsSome(removeOp)
    /\ Get(removeOp).pc = "deployment"
    /\ LET named == {d \in deployments : d.name = Some(Get(removeOp).instance.deploymentName)}
       IN  IF named = {}
           THEN /\ removeOp' = None
                /\ UNCHANGED deployments
                /\ ret' = Some(<<"removeInstance throws", Get(removeOp).id, "404">>)
           ELSE /\ deployments' = deployments \ named
                /\ ret' = None
                /\ removeOp' = Some([Get(removeOp) EXCEPT !.pc = "delete"])
    /\ syncLog' = <<>>
    /\ UNCHANGED <<instances, services, now, usedIds, createOp, syncOp>>
    /\ UNCHANGED fate
    /\ UNCHANGED dirFrame

\* removeInstance: instances.delete(id), and the call returns true.
RemoveDelete ==
    /\ IsSome(removeOp)
    /\ Get(removeOp).pc = "delete"
    /\ instances' = MapDelete(instances, Get(removeOp).id)
    /\ removeOp' = None
    /\ syncLog' = <<>>
    /\ UNCHANGED <<services, deployments, now, usedIds, createOp, syncOp>>
    /\ fate' = [fate EXCEPT ![Get(removeOp).id] = "removed"]
    /\ ret' = Some(<<"removeInstance", Get(removeOp).id, TRUE>>)
    /\ UNCHANGED dirFrame

hydrateFrame == <<services, deployments, now, usedIds, createOp, removeOp, syncOp, fate, listOps,
                  apiReq, apiRes>>

\* getInstanceOrLoad(id) finds the record in the map and returns it.
LoadExisting ==
    /\ \E id \in DOMAIN instances : ret' = Some(<<"getInstanceOrLoad", id, getInstance(id)>>)
    /\ UNCHANGED <<instances, syncLog, hydrateOps>>
    /\ UNCHANGED hydrateFrame
    /\ UNCHANGED otherFrame

\* getInstanceOrLoad(id) finds no record and hydrateInstance(id) asks the API
\* server for the Service and the Deployment of the conventional name.  A second
\* call asks for the same id; it overlaps the first when that one has not
\* completed.  A call that has completed keeps its outcome in `result'.
HydrateStart ==
    /\ \E k \in 1..MaxHydrations :
          /\ hydrateOps[k] = None
          /\ \A j \in 1..(k - 1) : hydrateOps[j] # None
          /\ \E id \in DirIds \ DOMAIN instances :
                /\ \A j \in 1..(k - 1) : Get(hydrateOps[j]).id = id
                /\ hydrateOps' = [hydrateOps EXCEPT ![k] =
                    Some([id |-> id, svc |-> <<"pending">>, dep |-> <<"pending">>,
                          result |-> <<"pending">>])]
    /\ ret' = None
    /\ UNCHANGED <<instances, syncLog>>
    /\ UNCHANGED hydrateFrame
    /\ UNCHANGED otherFrame

\* What readNamespacedService / readNamespacedDeployment answer for a name: the
\* object, a 404, or another error of the API server.
ReadNamed(objects, name) ==
    LET named == {o \in objects : o.name = Some(name)}
    IN  {IF named = {} THEN <<"404">> ELSE <<"ok", CHOOSE o \in named : TRUE>>,
         <<"error", "connect ECONNREFUSED">>}

Rejected(answer) == answer[1] \in {"404", "error"}

\* hydrateInstance: the API server answers the read of the Service.  Promise.all
\* has settled once one read is rejected.
HydrateReadService ==
    /\ \E k \in 1..MaxHydrations :
          /\ IsSome(hydrateOps[k])
          /\ Get(hydrateOps[k]).result = <<"pending">>
          /\ Get(hydrateOps[k]).svc = <<"pending">>
          /\ ~Rejected(Get(hydrateOps[k]).dep)
          /\ \E answer \in ReadNamed(services, AgentPrefix \o Get(hydrateOps[k]).id) :
                hydrateOps' = [hydrateOps EXCEPT ![k] =
                                  Some([Get(hydrateOps[k]) EXCEPT !.svc = answer])]
    /\ ret' = None
    /\ UNCHANGED <<instances, syncLog>>
    /\ UNCHANGED hydrateFrame
    /\ UNCHANGED otherFrame

\* hydrateInstance: the API server answers the read of the Deployment.
HydrateReadDeployment ==
    /\ \E k \in 1..MaxHydrations :
          /\ IsSome(hydrateOps[k])
          /\ Get(hydrateOps[k]).result = <<"pending">>
          /\ Get(hydrateOps[k]).dep = <<"pending">>
          /\ ~Rejected(Get(hydrateOps[k]).svc)
          /\ \E answer \in ReadNamed(deployments, AgentPrefix \o Get(hydrateOps[k]).id) :
                hydrateOps' = [hydrateOps EXCEPT ![k] =
                                  Some([Get(hydrateOps[k]) EXCEPT !.dep = answer])]
    /\ ret' = None
    /\ UNCHANGED <<instances, syncLog>>
    /\ UNCHANGED hydrateFrame
    /\ UNCHANGED otherFrame

\* Mutant: a 404 is thrown like any other error.
HydrateOutcome_NotFoundThrows(op) ==
    LET rejection == IF Rejected(op.svc) THEN op.svc ELSE op.dep
        record    == buildInstanceRecord(Some(op.svc[2]), Some(op.dep[2]), now)
    IN  IF Rejected(rejection)
        THEN IF rejection[1] = "404" THEN <<"throw", "not found">> ELSE <<"throw", rejection[2]>>
        ELSE IF IsSome(record) THEN <<"store", Get(record)>> ELSE <<"absent">>

\* What hydrateInstance does once Promise.all has settled: <<"store", record>>,
\* <<"absent">> (a record that cannot be built, or a 404) or <<"throw", message>>.
HydrateOutcome(op) ==
    LET rejection == IF Rejected(op.svc) THEN op.svc ELSE op.dep
        record    == buildInstanceRecord(Some(op.svc[2]), Some(op.dep[2]), now)
    IN  IF Rejected(rejection)
        THEN IF rejection[1] = "404" THEN <<"absent">> ELSE <<"throw", rejection[2]>>
        ELSE IF IsSome(record) THEN <<"store", Get(record)>> ELSE <<"absent">>

\* hydrateInstance after its await.
HydrateFinish ==
    /\ \E k \in 1..MaxHydrations :
          /\ IsSome(hydrateOps[k])
          /\ Get(hydrateOps[k]).result = <<"pending">>
          /\ LET op == Get(hydrateOps[k])
             IN  /\ \/ Rejected(op.svc)
                    \/ Rejected(op.dep)
                    \/ (op.svc[1] = "ok" /\ op.dep[1] = "ok")
                 /\ LET outcome == HydrateOutcome(op)
                    IN  CASE outcome[1] = "store" ->
                                /\ instances' = MapSet(instances, op.id, outcome[2])
                                /\ syncLog' = <<>>
                                /\ ret' = Some(<<"getInstanceOrLoad", op.id, Some(outcome[2])>>)
                          [] outcome[1] = "absent" ->
                                /\ UNCHANGED <<instances, syncLog>>
                                /\ ret' = Some(<<"getInstanceOrLoad", op.id, None>>)
                          [] outcome[1] = "throw" ->
                                /\ UNCHANGED <<instances, syncLog>>
                                /\ ret' = Some(<<"getInstanceOrLoad throws", op.id, outcome[2]>>)
          /\ hydrateOps' = [hydrateOps EXCEPT ![k] =
                Some([Get(hydrateOps[k]) EXCEPT !.result = HydrateOutcome(Get(hydrateOps[k]))])]
    /\ UNCHANGED hydrateFrame
    /\ UNCHANGED otherFrame

\* removeInstance(id) for an id the map does not hold: it returns false.
RemoveMissing ==
    /\ \E id \in DirIds \ DOMAIN instances :
          ret' = Some(<<"removeInstance", id, FALSE>>)
    /\ UNCHANGED <<instances, services, deployments, now, usedIds, createOp, removeOp, syncOp,
                   syncLog, fate>>
    /\ UNCHANGED dirFrame

\* A reader calls getInstance(id): the proxy's lookup.
ReadInstance ==
    /\ \E id \in DirIds : ret' = Some(<<"getInstance", id, getInstance(id)>>)
    /\ UNCHANGED <<instances, services, deployments, now, usedIds, createOp, removeOp, syncOp,
                   syncLog, fate>>
    /\ UNCHANGED dirFrame

\* A reader calls listInstances() of the variant with syncInstancesFromCluster:
\* Array.from(instances.values()).
ReadAll ==
    /\ ret' = Some(<<"listInstances", <<>>, {instances[id] : id \in DOMAIN instances}>>)
    /\ UNCHANGED <<instances, services, deployments, now, usedIds, createOp, removeOp, syncOp,
                   syncLog, fate>>
    /\ UNCHANGED dirFrame

\* syncInstancesFromCluster: the API server answers the listing of the Services
\* that carry the radome.instance label.
SyncListServices ==
    /\ syncOp.svcs = None
    /\ syncOp' = [syncOp EXCEPT !.svcs = Some({s \in services : IsSome(s.label)})]
    /\ UNCHANGED <<instances, services, deployments, now, usedIds, createOp, removeOp, syncLog>>
    /\ UNCHANGED fate
    /\ ret' = None
    /\ UNCHANGED dirFrame

\* syncInstancesFromCluster: the API server answers the listing of the Deployments.
SyncListDeployments ==
    /\ syncOp.deps = None
    /\ syncOp' = [syncOp EXCEPT !.deps = Some({d \in deployments : IsSome(d.label)})]
    /\ UNCHANGED <<instances, services, deployments, now, usedIds, createOp, removeOp, syncLog>>
    /\ UNCHANGED fate
    /\ ret' = None
    /\ UNCHANGED dirFrame

\* Mutant: the rebuilt records are merged into the map, which is not cleared.
SyncApply_Merging ==
    /\ IsSome(syncOp.svcs)
    /\ IsSome(syncOp.deps)
    /\ LET next == NextInstances(Get(syncOp.svcs), Get(syncOp.deps), now)
       IN  instances' = [id \in DOMAIN instances \cup DOMAIN next |->
                            IF id \in DOMAIN next THEN next[id] ELSE instances[id]]
    /\ syncOp' = NoSync
    /\ syncLog' = LET run == [svcs |-> Get(syncOp.svcs), deps |-> Get(syncOp.deps),
                              dir |-> instances']
                  IN  IF syncLog = <<>> THEN <<run>> ELSE <<syncLog[Len(syncLog)], run>>
    /\ UNCHANGED <<services, deployments, now, usedIds, createOp, removeOp>>
    /\ UNCHANGED fate
    /\ ret' = None
    /\ UNCHANGED dirFrame

\* syncInstancesFromCluster after its await: the map is rebuilt from the listings.
SyncApply ==
    /\ IsSome(syncOp.svcs)
    /\ IsSome(syncOp.deps)
    /\ instances' = NextInstances(Get(syncOp.svcs), Get(syncOp.deps), now)
    /\ syncOp' = NoSync
    /\ syncLog' = LET run == [svcs |-> Get(syncOp.svcs), deps |-> Get(syncOp.deps),
                              dir |-> instances']
                  IN  IF syncLog = <<>> THEN <<run>> ELSE <<syncLog[Len(syncLog)], run>>
    /\ UNCHANGED <<services, deployments, now, usedIds, createOp, removeOp>>
    /\ UNCHANGED fate
    /\ ret' = None
    /\ UNCHANGED dirFrame

\* An operator deletes a Service of the namespace (kubectl delete).
ExternalDeleteService ==
    /\ \E s \in services : services' = services \ {s}
    /\ syncLog' = <<>>
    /\ UNCHANGED <<instances, deployments, now, usedIds, createOp, removeOp, syncOp>>
    /\ UNCHANGED fate
    /\ ret' = None
    /\ UNCHANGED dirFrame

\* An operator deletes a Deployment of the namespace.
ExternalDeleteDeployment ==
    /\ \E d \in deployments : deployments' = deployments \ {d}
    /\ syncLog' = <<>>
    /\ UNCHANGED <<instances, services, now, usedIds, createOp, removeOp, syncOp>>
    /\ UNCHANGED fate
    /\ ret' = None
    /\ UNCHANGED dirFrame

\* The process restarts: the map is empty again and the calls in flight are gone.
Restart ==
    /\ instances # << >>
    /\ instances' = << >>
    /\ createOp' = None
    /\ removeOp' = None
    /\ syncOp' = NoSync
    /\ syncLog' = <<>>
    /\ UNCHANGED <<services, deployments, now, usedIds>>
    /\ fate' = [id \in DirIds |-> CASE fate[id] = "creating" -> "aborted"
                                     [] OTHER                 -> fate[id]]
    /\ ret' = None
    /\ hydrateOps' = [k \in 1..MaxHydrations |-> None]
    /\ listOps' = [k \in 1..MaxLists |-> NoList]
    /\ apiReq' = None
    /\ apiRes' = None
    /\ UNCHANGED otherFrame

\* Time passes.
Tick ==
    /\ now < MaxClock
    /\ now' = now + 1
    /\ UNCHANGED <<instances, services, deployments, usedIds, createOp, removeOp, syncOp, syncLog>>
    /\ UNCHANGED fate
    /\ ret' = None
    /\ UNCHANGED dirFrame

(***************************************************************************)
(* Response rewriter of the tunnel mode.  The Location of an upstream      *)
(* response is a path with an optional query string and fragment; a        *)
(* Location in the form of an absolute URL is outside this model.          *)
(***************************************************************************)
\* The upstream base path of a request: the path of the instance's proxy root
\* without its final "/".
UpstreamBase(instance) ==
    LET root == buildKubeServicePath(instance, <<"/">>)
    IN  SubSeq(root, 1, Len(root) - 1)

\* The client-visible base path: <prefix>/<instanceId>, empty under subdomain routing.
ClientBase(instance, byPath) ==
    IF byPath THEN InstancesPrefix \o <<"/">> \o instance.id ELSE <<>>

\* The least index of a "?" or "#" in s, Len(s) + 1 when s has none.
PathEnd(s) ==
    IF \E i \in 1..Len(s) : s[i] \in {"?", "#"}
    THEN CHOOSE i \in 1..Len(s) : s[i] \in {"?", "#"} /\ \A j \in 1..(i - 1) : s[j] \notin {"?", "#"}
    ELSE Len(s) + 1

\* Mutant: the query string and the fragment are lost in the rewriting.
rewriteLocation_DropsQuery(location, upstreamBase, clientBase) ==
    LET path    == SubSeq(location, 1, PathEnd(location) - 1)
        newPath == clientBase \o SliceFrom(path, Len(upstreamBase))
    IN  IF ~StartsWith(path, upstreamBase) THEN location
        ELSE IF newPath = <<>> THEN <<"/">> ELSE newPath

\* The Location written back: the upstream base path of the location's path is
\* replaced by the client base path, an empty resulting path becomes "/", the query
\* string and the fragment are kept; a location elsewhere is left as it is.
rewriteLocation(location, upstreamBase, clientBase) ==
    LET path    == SubSeq(location, 1, PathEnd(location) - 1)
        rest    == SubSeq(location, PathEnd(location), Len(location))
        newPath == clientBase \o SliceFrom(path, Len(upstreamBase))
    IN  IF ~StartsWith(path, upstreamBase) THEN location
        ELSE (IF newPath = <<>> THEN <<"/">> ELSE newPath) \o rest

SuffixChars == {"/", "b", "?", "#"}

\* The routing contexts of the requests for the instances of the proxy's directories.
LocContexts ==
    {[upstreamBase |-> UpstreamBase(d[id]), clientBase |-> ClientBase(d[id], byPath)] :
        <<d, id>> \in {<<d, id>> \in ProxyDirectories \X ProxyIds : id \in DOMAIN d},
        byPath \in BOOLEAN}

\* What an upstream may redirect to: below one of the proxy roots, or elsewhere.
Locations ==
    {base \o suffix :
        base \in {c.upstreamBase : c \in LocContexts} \cup {<<>>, <<"/", "b">>},
        suffix \in SeqsUpTo(SuffixChars, MaxSuffix)}
    \ {<<>>}

LocIdle ==
    /\ locCtx = [upstreamBase |-> <<>>, clientBase |-> <<>>]
    /\ locIn = None
    /\ locOut = <<"idle">>

LocInit ==
    /\ locCtx \in LocContexts
    /\ locIn = None
    /\ locOut = <<"pending">>

\* The upstream answers with a Location header.
UpstreamRedirects ==
    /\ locOut = <<"pending">>
    /\ locIn = None
    /\ \E l \in Locations : locIn' = Some(l)
    /\ UNCHANGED <<locCtx, locOut>>
    /\ UNCHANGED locFrame

\* The Location header is rewritten on the way back to the client.
RewriteResponse ==
    /\ locOut = <<"pending">>
    /\ IsSome(locIn)
    /\ locOut' = <<"done", rewriteLocation(Get(locIn), locCtx.upstreamBase, locCtx.clientBase)>>
    /\ UNCHANGED <<locCtx, locIn>>
    /\ UNCHANGED locFrame

(***************************************************************************)
(* Specifications.                                                         *)
(***************************************************************************)
SpecSubdomainInit == SubInit /\ PathIdle /\ ProxyIdle /\ StatusIdle /\ DirInit /\ LocIdle /\ HdrIdle /\ CorsIdle /\ AuthIdle
SpecSubdomainNext == ApplyExtractSubdomain
SpecSubdomain == SpecSubdomainInit /\ [][SpecSubdomainNext]_vars

SpecPathInit == PathInit /\ SubIdle /\ ProxyIdle /\ StatusIdle /\ DirInit /\ LocIdle /\ HdrIdle /\ CorsIdle /\ AuthIdle
SpecPathNext == ApplyExtractInstancePath
SpecPath == SpecPathInit /\ [][SpecPathNext]_vars

SpecProxyInit == ProxyInit /\ SubIdle /\ PathIdle /\ StatusIdle /\ DirIdle /\ LocIdle /\ HdrIdle /\ CorsIdle /\ AuthIdle
SpecProxyNext ==
    \/ ReceiveRequest
    \/ HandleRequest
    \/ UpstreamError
    \/ UpstreamResponse
SpecProxy == SpecProxyInit /\ [][SpecProxyNext]_vars

\* Two requests in flight at once.
SpecProxyPairInit == SpecProxyInit
SpecProxyPairNext ==
    \/ ReceiveRequest
    \/ HandleRequest
    \/ UpstreamError
    \/ UpstreamResponse
    \/ PeerHandle
    \/ PeerUpstreamError
    \/ PeerUpstreamResponse
SpecProxyPair == SpecProxyPairInit /\ [][SpecProxyPairNext]_vars

SpecStatusInit == StatusInit /\ SubIdle /\ PathIdle /\ ProxyIdle /\ DirInit /\ LocIdle /\ HdrIdle /\ CorsIdle /\ AuthIdle
SpecStatusNext == DeriveStatus
SpecStatus == SpecStatusInit /\ [][SpecStatusNext]_vars

SpecDirInit == DirInit /\ SubIdle /\ PathIdle /\ ProxyIdle /\ StatusIdle /\ LocIdle /\ HdrIdle /\ CorsIdle /\ AuthIdle
SpecDirNext ==
    \/ CreateDeployment
    \/ CreateDeploymentRejected
    \/ CreateService
    \/ CreateServiceRejected
    \/ CreateInsert
    \/ RemoveStart
    \/ RemoveService
    \/ RemoveDeployment
    \/ RemoveDelete
    \/ SyncListServices
    \/ SyncListDeployments
    \/ SyncApply
    \/ ExternalDeleteService
    \/ ExternalDeleteDeployment
    \/ Restart
    \/ Tick
SpecDir == SpecDirInit /\ [][SpecDirNext]_vars

\* The directory with removals of unknown identifiers; the clock stands still.
SpecOpsInit == DirInit /\ SubIdle /\ PathIdle /\ ProxyIdle /\ StatusIdle /\ LocIdle /\ HdrIdle /\ CorsIdle /\ AuthIdle
SpecOpsNext ==
    \/ CreateDeployment
    \/ CreateDeploymentRejected
    \/ CreateService
    \/ CreateServiceRejected
    \/ CreateInsert
    \/ RemoveStart
    \/ RemoveMissing
    \/ RemoveService
    \/ RemoveDeployment
    \/ RemoveDelete
    \/ SyncListServices
    \/ SyncListDeployments
    \/ SyncApply
    \/ ExternalDeleteService
    \/ ExternalDeleteDeployment
    \/ Restart
SpecOps == SpecOpsInit /\ [][SpecOpsNext]_vars

\* The directory with every way a record enters it (variant 3): createInstance,
\* hydrateInstance and syncInstancesFromCluster, across restarts of the process.
SpecEntryInit == DirInit /\ SubIdle /\ PathIdle /\ ProxyIdle /\ StatusIdle /\ LocIdle /\ HdrIdle /\ CorsIdle /\ AuthIdle
SpecEntryNext ==
    \/ CreateDeployment
    \/ CreateService
    \/ CreateInsert
    \/ HydrateStart
    \/ HydrateReadService
    \/ HydrateReadDeployment
    \/ HydrateFinish
    \/ SyncListServices
    \/ SyncListDeployments
    \/ SyncApply
    \/ Restart
SpecEntry == SpecEntryInit /\ [][SpecEntryNext]_vars

\* ---------------------------------------------------------------------------
\* POST /instances (index.ts) over the allowed_images table (db.ts)

\* The images an administrator may put into the table.
ImageUniverse == AllowedImages

\* The bodies a client posts.
PostBodies ==
    [image : {Undefined, JsonString(""), JsonNumber(7), JsonString("ghost/image")}
                \cup {JsonString(im.name) : im \in ImageUniverse},
     containerPort : {Undefined, JsonString("80")},
     name : {JsonString("my agent")}]

\* Mutant: the lookup reads the images the table was seeded with.
getAllowedImageByName_Seeded(name) ==
    LET rows == {im \in AllowedImages : im.name = name}
    IN  IF rows = {} THEN None ELSE Some(CHOOSE im \in rows : TRUE)

\* SELECT * FROM allowed_images WHERE name = ?
getAllowedImageByName(name) ==
    LET rows == {im \in catalog : im.name = name}
    IN  IF rows = {} THEN None ELSE Some(CHOOSE im \in rows : TRUE)

dbFrame  == <<subVars, pathVars, instances, proxyVars, statusVars, dirVars, callVars, locVars,
                hdrVars,
                corsVars,
                authVars>>
apiFrame == <<otherFrame, hydrateOps, listOps>>

\* createAllowedImage
CatalogAdd ==
    /\ \E im \in ImageUniverse :
          /\ im.name \notin {row.name : row \in catalog}
          /\ catalog' = catalog \cup {im}
    /\ UNCHANGED dbFrame

\* deleteAllowedImage
CatalogDelete ==
    /\ \E im \in catalog : catalog' = catalog \ {im}
    /\ UNCHANGED dbFrame

\* What the handler answers before it calls createInstance, if anything.
PostRejection(body) ==
    IF ~Truthy(body.image) \/ TypeOf(body.image) # "string"
    THEN Some([status |-> 400, body |-> "image is required"])
    ELSE IF ~IsSome(getAllowedImageByName(body.image[2]))
    THEN Some([status |-> 400, body |-> "image not allowed"])
    ELSE IF Truthy(body.containerPort) /\ TypeOf(body.containerPort) # "number"
    THEN Some([status |-> 400, body |-> "containerPort must be a number"])
    ELSE None

\* The handler of POST /instances up to its await: the three checks, then the call
\* of createInstance with the row of the table, which draws the id.
PostInstances ==
    /\ apiReq = None
    /\ createOp = None
    /\ \E body \in PostBodies :
          IF IsSome(PostRejection(body))
          THEN /\ apiRes' = Some(Get(PostRejection(body)) @@ [req |-> body])
               /\ UNCHANGED <<apiReq, createOp, usedIds, fate>>
          ELSE \E id \in DirIds \ usedIds :
                  /\ apiReq' = Some([method |-> "POST", req |-> body, id |-> id])
                  /\ apiRes' = None
                  /\ createOp' = Some([pc |-> "deployment", id |-> id,
                                       input |-> [image |-> Get(getAllowedImageByName(body.image[2])),
                                                  name  |-> Some(body.name[2])]])
                  /\ usedIds' = usedIds \cup {id}
                  /\ fate' = [fate EXCEPT ![id] = "creating"]
    /\ ret' = None
    /\ UNCHANGED <<instances, services, deployments, now, removeOp, syncOp, syncLog>>
    /\ UNCHANGED apiFrame

\* createInstance of the request: the API server accepts the Deployment.
PostCreateDeployment ==
    /\ IsSome(createOp)
    /\ Get(createOp).pc = "deployment"
    /\ deployments' = deployments \cup {DeploymentOf(Get(createOp).id, Get(createOp).input, now)}
    /\ createOp' = Some([Get(createOp) EXCEPT !.pc = "service"])
    /\ syncLog' = <<>>
    /\ ret' = None
    /\ UNCHANGED <<instances, services, now, usedIds, removeOp, syncOp, fate>>
    /\ UNCHANGED dirFrame

\* createInstance of the request: the API server rejects the Deployment.
PostCreateDeploymentRejected ==
    /\ IsSome(createOp)
    /\ Get(createOp).pc = "deployment"
    /\ createOp' = None
    /\ fate' = [fate EXCEPT ![Get(createOp).id] = "failed"]
    /\ ret' = None
    /\ UNCHANGED <<instances, services, deployments, now, usedIds, removeOp, syncOp, syncLog>>
    /\ UNCHANGED dirFrame

\* The handler after its await: 201 with the instance, or 500 with the message of
\* the error createInstance threw.
PostRespond ==
    /\ IsSome(apiReq)
    /\ Get(apiReq).method = "POST"
    /\ createOp = None
    /\ apiRes' = IF fate[Get(apiReq).id] = "created"
                 THEN Some([status |-> 201, body |-> Get(apiReq).id, req |-> Get(apiReq).req])
                 ELSE Some([status |-> 500, body |-> "rejected", req |-> Get(apiReq).req])
    /\ apiReq' = None
    /\ ret' = None
    /\ UNCHANGED <<instances, services, deployments, now, usedIds, createOp, removeOp, syncOp,
                   syncLog, fate>>
    /\ UNCHANGED apiFrame

\* POST /instances while an administrator edits the table.
SpecApiInit == DirInit /\ SubIdle /\ PathIdle /\ ProxyIdle /\ StatusIdle /\ LocIdle /\ HdrIdle /\ CorsIdle /\ AuthIdle
SpecApiNext ==
    \/ PostInstances
    \/ PostCreateDeployment
    \/ PostCreateDeploymentRejected
    \/ CreateService
    \/ CreateServiceRejected
    \/ CreateInsert
    \/ PostRespond
    \/ CatalogAdd
    \/ CatalogDelete
SpecApi == SpecApiInit /\ [][SpecApiNext]_vars

\* ---------------------------------------------------------------------------
\* The refresh on read (the variant of instances.ts whose listInstances is async)

RunningReadyPod ==
    [phase |-> Some("Running"), message |-> None, reason |-> None,
     containerStatuses |-> <<[waiting |-> None, ready |-> TRUE]>>]
PullBackOffPod ==
    [phase |-> Some("Pending"), message |-> None, reason |-> None,
     containerStatuses |-> <<[waiting |-> Some([reason  |-> Some("ImagePullBackOff"),
                                                message |-> Some("first message")]),
                              ready |-> FALSE]>>]

\* What listNamespacedPod answers: the items, each with the creation time of its
\* metadata (milliseconds, None when absent), or an error.
PodAnswers ==
    {<<"error", "connect ECONNREFUSED">>,
     <<"items", <<>>>>,
     <<"items", <<[creationTimestamp |-> Some(1), status |-> RunningReadyPod]>>>>,
     <<"items", <<[creationTimestamp |-> Some(1), status |-> RunningReadyPod],
                  [creationTimestamp |-> Some(2), status |-> PullBackOffPod]>>>>}

\* pods.reduce(...): the pod of the greatest creation time, the first of equals
RECURSIVE getLatestPodFrom(_, _)
getLatestPodFrom(latest, pods) ==
    IF pods = <<>> THEN latest
    ELSE LET p == Head(pods)
             timeOf(q) == IF IsSome(q.creationTimestamp) THEN Get(q.creationTimestamp) ELSE 0
         IN  IF ~IsSome(latest) THEN getLatestPodFrom(Some(p), Tail(pods))
             ELSE IF timeOf(p) > timeOf(Get(latest)) THEN getLatestPodFrom(Some(p), Tail(pods))
             ELSE getLatestPodFrom(latest, Tail(pods))
getLatestPod(pods) == getLatestPodFrom(None, pods)

\* Mutant: the refresh writes the new status and leaves the message as it was.
refreshInstanceStatus_StatusOnly(instance, answer) ==
    IF answer[1] = "error" THEN [instance EXCEPT !.status = "error"]
    ELSE LET latestPod == getLatestPod(answer[2])
         IN  IF ~IsSome(latestPod) THEN [instance EXCEPT !.status = "starting"]
             ELSE [instance EXCEPT !.status = deriveStatusFromPod(Get(latestPod).status).status]

\* refreshInstanceStatus once listNamespacedPod has answered: {...instance, status,
\* statusMessage}
refreshInstanceStatus(instance, answer) ==
    IF answer[1] = "error"
    THEN [status |-> "error", statusMessage |-> Some(answer[2])] @@ instance
    ELSE LET latestPod == getLatestPod(answer[2])
         IN  IF ~IsSome(latestPod)
             THEN [status |-> "starting", statusMessage |-> None] @@ instance
             ELSE LET derivedStatus == deriveStatusFromPod(Get(latestPod).status)
                  IN  [status |-> derivedStatus.status,
                       statusMessage |-> derivedStatus.statusMessage] @@ instance

listFrame == <<services, deployments, now, usedIds, createOp, removeOp, syncOp, syncLog, fate,
               hydrateOps, apiReq, apiRes>>

\* listInstances up to its await: Array.from(instances.values()), and one
\* refreshInstanceStatus started per record.  At most MaxLists calls are made.
ListStart ==
    /\ \E k \in 1..MaxLists :
          /\ listOps[k].pc = "idle"
          /\ \A j \in 1..(k - 1) : listOps[j].pc # "idle"
          /\ listOps' = [listOps EXCEPT ![k] =
                            [pc |-> "pending", currentInstances |-> instances,
                             refreshed |-> [id \in DOMAIN instances |-> None]]]
    /\ ret' = None
    /\ UNCHANGED instances
    /\ UNCHANGED listFrame
    /\ UNCHANGED otherFrame

\* listNamespacedPod answers one refreshInstanceStatus of a listInstances call.
ListPodAnswer ==
    /\ \E k \in 1..MaxLists :
          /\ listOps[k].pc = "pending"
          /\ \E id \in DOMAIN listOps[k].currentInstances, answer \in PodAnswers :
                /\ listOps[k].refreshed[id] = None
                /\ listOps' = [listOps EXCEPT ![k].refreshed[id] =
                          Some(refreshInstanceStatus(listOps[k].currentInstances[id], answer))]
    /\ ret' = None
    /\ UNCHANGED instances
    /\ UNCHANGED listFrame
    /\ UNCHANGED otherFrame

\* instances.set(instance.id, instance) for each of the records
SetAll(m, records) ==
    [id \in DOMAIN m \cup DOMAIN records |->
        IF id \in DOMAIN records THEN records[id] ELSE m[id]]

\* listInstances after Promise.all: every refreshed record is stored under its id
\* and the records are returned.
ListFinish ==
    /\ \E k \in 1..MaxLists :
          /\ listOps[k].pc = "pending"
          /\ \A id \in DOMAIN listOps[k].refreshed : IsSome(listOps[k].refreshed[id])
          /\ LET refreshed == [id \in DOMAIN listOps[k].refreshed |->
                                  Get(listOps[k].refreshed[id])]
             IN  /\ instances' = SetAll(instances, refreshed)
                 /\ ret' = Some(<<"listInstances", <<>>, refreshed>>)
          /\ listOps' = [listOps EXCEPT ![k] =
                            [pc |-> "done", currentInstances |-> << >>, refreshed |-> << >>]]
    /\ UNCHANGED listFrame
    /\ UNCHANGED otherFrame

\* createInstance, removeInstance, getInstance and overlapping listInstances calls.
SpecRefreshInit == DirInit /\ SubIdle /\ PathIdle /\ ProxyIdle /\ StatusIdle /\ LocIdle /\ HdrIdle /\ CorsIdle /\ AuthIdle
SpecRefreshNext ==
    \/ CreateDeployment
    \/ CreateService
    \/ CreateInsertStarting
    \/ RemoveStart
    \/ RemoveService
    \/ RemoveDeployment
    \/ RemoveDelete
    \/ ListStart
    \/ ListPodAnswer
    \/ ListFinish
    \/ ReadInstance
SpecRefresh == SpecRefreshInit /\ [][SpecRefreshNext]_vars

\* getInstanceOrLoad, alone and overlapping, over a cluster that changes.
SpecHydrateInit == DirInit /\ SubIdle /\ PathIdle /\ ProxyIdle /\ StatusIdle /\ LocIdle /\ HdrIdle /\ CorsIdle /\ AuthIdle
SpecHydrateNext ==
    \/ CreateDeployment
    \/ CreateService
    \/ CreateInsert
    \/ LoadExisting
    \/ HydrateStart
    \/ HydrateReadService
    \/ HydrateReadDeployment
    \/ HydrateFinish
    \/ ExternalDeleteService
    \/ ExternalDeleteDeployment
    \/ Restart
SpecHydrate == SpecHydrateInit /\ [][SpecHydrateNext]_vars

\* ---------------------------------------------------------------------------
\* DELETE /instances/:id (index.ts)

\* The handler up to its await: removeInstance(req.params.id) is called; for an id
\* the map lacks it resolves to false and the handler answers 404.
DeleteInstances ==
    /\ apiReq = None
    /\ removeOp = None
    /\ \E id \in DirIds :
          IF id \in DOMAIN instances
          THEN /\ removeOp' = Some([pc |-> "service", id |-> id, instance |-> instances[id]])
               /\ apiReq' = Some([method |-> "DELETE", req |-> <<"DELETE", id>>, id |-> id])
               /\ apiRes' = None
          ELSE /\ apiRes' = Some([status |-> 404, body |-> "instance not found",
                                  req |-> <<"DELETE", id>>])
               /\ UNCHANGED <<removeOp, apiReq>>
    /\ ret' = None
    /\ UNCHANGED <<instances, services, deployments, now, usedIds, createOp, syncOp, syncLog, fate>>
    /\ UNCHANGED apiFrame

\* What becomes of the rejected promise of an async handler that has no catch:
\* Express 4 leaves it unhandled and the request unanswered (status 0); Express 5
\* passes it to the error handler, which answers 500.
RejectedHandlerOutcomes ==
    {[status |-> 0, body |-> "unhandled rejection"],
     [status |-> 500, body |-> "Internal Server Error"]}

\* The handler after its await: 204 when removeInstance returned true; when it
\* threw, nothing in the handler catches the error.
DeleteRespond ==
    /\ IsSome(apiReq)
    /\ Get(apiReq).method = "DELETE"
    /\ removeOp = None
    /\ IF fate[Get(apiReq).id] = "removed"
       THEN apiRes' = Some([status |-> 204, body |-> "", req |-> Get(apiReq).req])
       ELSE \E outcome \in RejectedHandlerOutcomes :
               apiRes' = Some(outcome @@ [req |-> Get(apiReq).req])
    /\ apiReq' = None
    /\ ret' = None
    /\ UNCHANGED <<instances, services, deployments, now, usedIds, createOp, removeOp, syncOp,
                   syncLog, fate>>
    /\ UNCHANGED apiFrame

\* DELETE /instances/:id over a cluster whose objects may be deleted from outside.
SpecDeleteInit == DirInit /\ SubIdle /\ PathIdle /\ ProxyIdle /\ StatusIdle /\ LocIdle /\ HdrIdle /\ CorsIdle /\ AuthIdle
SpecDeleteNext ==
    \/ CreateDeployment
    \/ CreateService
    \/ CreateInsert
    \/ DeleteInstances
    \/ RemoveService
    \/ RemoveDeployment
    \/ RemoveDelete
    \/ DeleteRespond
    \/ ExternalDeleteService
    \/ ExternalDeleteDeployment
SpecDelete == SpecDeleteInit /\ [][SpecDeleteNext]_vars

\* The proxyReq hook over inbound and injected headers.
SpecHeadersInit ==
    HdrInit /\ SubIdle /\ PathIdle /\ ProxyIdle /\ StatusIdle /\ DirInit /\ LocIdle /\ CorsIdle
    /\ AuthIdle
SpecHeadersNext == ProxyReqHook
SpecHeaders == SpecHeadersInit /\ [][SpecHeadersNext]_vars

\* One request of each method at the proxy and at the control API.
SpecOptionsInit ==
    ProxyInit /\ CorsInit /\ SubIdle /\ PathIdle /\ StatusIdle /\ DirIdle /\ LocIdle /\ HdrIdle
    /\ AuthIdle
SpecOptionsNext ==
    \/ ReceiveRequest
    \/ HandleRequest
    \/ UpstreamError
    \/ UpstreamResponse
    \/ CorsMiddleware
SpecOptions == SpecOptionsInit /\ [][SpecOptionsNext]_vars

\* The requests of the control API that make, use and end sessions.
SpecAuthInit ==
    AuthInit /\ SubIdle /\ PathIdle /\ ProxyIdle /\ StatusIdle /\ DirInit /\ LocIdle /\ HdrIdle
    /\ CorsIdle
SpecAuthNext ==
    \/ PostAuthLogin
    \/ PostAuthLogout
    \/ GetImages
    \/ PostUsers
    \/ ExternalDeleteUser
SpecAuth == SpecAuthInit /\ [][SpecAuthNext]_vars

\* The synchronisation and the readers of the directory.
SpecReadInit == DirInit /\ SubIdle /\ PathIdle /\ ProxyIdle /\ StatusIdle /\ LocIdle /\ HdrIdle /\ CorsIdle /\ AuthIdle
SpecReadNext ==
    \/ CreateDeployment
    \/ CreateService
    \/ CreateInsert
    \/ ReadInstance
    \/ ReadAll
    \/ SyncListServices
    \/ SyncListDeployments
    \/ SyncApply
    \/ ExternalDeleteService
    \/ ExternalDeleteDeployment
    \/ Restart
SpecRead == SpecReadInit /\ [][SpecReadNext]_vars

SpecLocationInit ==
    LocInit /\ SubIdle /\ PathIdle /\ ProxyIdle /\ StatusIdle /\ DirInit /\ HdrIdle /\ CorsIdle
    /\ AuthIdle
SpecLocationNext ==
    \/ UpstreamRedirects
    \/ RewriteResponse
SpecLocation == SpecLocationInit /\ [][SpecLocationNext]_vars

(***************************************************************************)
(* Claims about the proxy (checked under SpecProxy).                       *)
(***************************************************************************)
\* The handler has finished with the request: it answered, forwarded or threw.
Handled == pc \in {"responded", "forwarded", "crashed"}

\* C1: a request whose resolved identifier is not a key of the directory when it
\* is looked up is answered 404 and nothing is sent upstream for it, in the
\* three variants of the proxy.
C1_UnknownIs404 ==
    \A i \in DOMAIN lookups :
        lookups[i] \notin DOMAIN instances
            => /\ pc = "responded"
               /\ resStatus = 404
               /\ attempts = 0
               /\ upTarget = None
               /\ upUrl = None

C1_Witness ==
    /\ variant = "tunnel"
    /\ pc = "responded"
    /\ resStatus = 404
    /\ lookups = << <<"b">> >>
    /\ DOMAIN instances = ProxyIds
    /\ hostHeader = <<"b", ".", "r">>

\* The request has no path candidate: its path does not start with the marker
\* followed by a non-empty segment (a target new URL rejects has none either).
NoPathCandidate ==
    \/ variant = "subdomain"
    \/ extractInstancePathThrows(inboundUrl)
    \/ extractInstancePath(inboundUrl) = None

\* C2: a request with neither a subdomain candidate nor a path candidate is
\* answered 400; the directory is not consulted and no upstream is contacted.
C2_NoCandidateIs400 ==
    (Handled /\ extractSubdomain(hostHeader, baseDomain) = None /\ NoPathCandidate)
        => /\ pc = "responded"
           /\ resStatus = 400
           /\ lookups = <<>>
           /\ attempts = 0
           /\ upTarget = None

\* C5: in direct mode, when the identifier comes from the subdomain and the
\* instance exists, the target is http://<serviceHost>:<containerPort> of that
\* instance and the path and query sent upstream are the inbound ones, unchanged.
C5_SubdomainForwardsUnchanged ==
    LET subdomain == extractSubdomain(hostHeader, baseDomain)
    IN  (variant \in {"subdomain", "direct"} /\ pc = "forwarded" /\ IsSome(subdomain))
            => /\ Get(subdomain) \in DOMAIN instances
               /\ upTarget = Some(<<"h", "t", "t", "p", ":", "/", "/">>
                                  \o instances[Get(subdomain)].serviceHost \o <<":">>
                                  \o DecStr(instances[Get(subdomain)].containerPort))
               /\ upUrl = Some(inboundUrl)

\* The client path the tunnel variant hands to buildKubeServicePath: req.url after
\* the handler's rewrite.
ClientPath ==
    LET instancePath == extractInstancePath(inboundUrl)
    IN  IF IsSome(instancePath) THEN Get(instancePath).proxiedPath ELSE inboundUrl

ExampleKubePath ==
    <<"/", "a", "p", "i", "/", "v", "1", "/", "n", "a", "m", "e", "s", "p", "a", "c", "e", "s",
      "/", "n", "s", "/", "s", "e", "r", "v", "i", "c", "e", "s", "/",
      "r", "a", "d", "o", "m", "e", "-", "a", "g", "e", "n", "t", "-", "x", "y", "z",
      ":", "3", "0", "0", "0", "/", "p", "r", "o", "x", "y", "/", "f", "o", "o", "?", "q", "=", "1">>

\* C6: in tunnel mode the path sent to the API server is
\* /api/v1/namespaces/<ns>/services/<s>:<p>/proxy followed by the client path made
\* to start with "/", query included; an empty or "/" client path gives .../proxy/;
\* /instances/xyz/foo?q=1 gives /api/v1/namespaces/ns/services/radome-agent-xyz:3000/proxy/foo?q=1.
C6_TunnelPath ==
    (variant = "tunnel" /\ pc = "forwarded")
        => LET instance == instances[lookups[Len(lookups)]]
               c        == ClientPath
               proxy    == <<"/", "a", "p", "i", "/", "v", "1", "/", "n", "a", "m", "e", "s",
                             "p", "a", "c", "e", "s", "/">> \o instance.namespace
                           \o <<"/", "s", "e", "r", "v", "i", "c", "e", "s", "/">>
                           \o instance.serviceName \o <<":">> \o DecStr(instance.containerPort)
                           \o <<"/", "p", "r", "o", "x", "y">>
           IN  /\ upTarget = Some(kubeApiServer)
               /\ c \in {<<>>, <<"/">>} => upUrl = Some(proxy \o <<"/">>)
               /\ (c # <<>> /\ Head(c) = "/") => upUrl = Some(proxy \o c)
               /\ (c # <<>> /\ Head(c) # "/") => upUrl = Some(proxy \o <<"/">> \o c)
               /\ (inboundUrl = ExampleUrl /\ lookups = << <<"x", "y", "z">> >>)
                      => upUrl = Some(ExampleKubePath)

C6_Witness ==
    /\ variant = "tunnel"
    /\ pc = "forwarded"
    /\ hostHeader = <<"r">>
    /\ inboundUrl = ExampleUrl
    /\ upUrl = Some(ExampleKubePath)

(***************************************************************************)
(* Claims about the synchronisation and its readers (checked under         *)
(* SpecRead).                                                              *)
(***************************************************************************)
\* The identifiers a pair of listings gives a record to: those with a listed
\* Service and a listed Deployment.
ListedIds(svcs, deps) ==
    {id \in DirIds : /\ \E sv \in svcs : sv.label = Some(id)
                     /\ \E d \in deps : d.label = Some(id)}

\* This step is the replacement of the map by a synchronisation.
SyncReplaces ==
    /\ IsSome(syncOp.svcs)
    /\ IsSome(syncOp.deps)
    /\ syncOp' = NoSync
    /\ syncLog' # <<>>

\* This step is a read of the directory.
ReaderReads == IsSome(ret') /\ Get(ret')[1] \in {"getInstance", "listInstances"}

\* C11: the readers of the directory see whole maps only.  The step that replaces
\* the map leaves the complete rebuilt map (a record for every identifier of the
\* listings, never the cleared or a partly refilled map), the steps of a
\* synchronisation before it leave the map as it was, and a read returns what the
\* map of that moment holds.
C11_ReadersSeeWholeMaps ==
    [][/\ SyncReplaces
          => /\ DOMAIN instances' = ListedIds(Get(syncOp.svcs), Get(syncOp.deps))
             /\ \A id \in DOMAIN instances' : instances'[id].id = id
       /\ (syncOp' # syncOp /\ syncOp' # NoSync) => instances' = instances
       /\ ReaderReads
          => /\ instances' = instances
             /\ Get(ret')[1] = "getInstance"
                => Get(ret')[3] = IF Get(ret')[2] \in DOMAIN instances
                                  THEN Some(instances[Get(ret')[2]]) ELSE None
             /\ Get(ret')[1] = "listInstances"
                => Get(ret')[3] = {instances[id] : id \in DOMAIN instances}]_vars

\* A reader lists the two records of the map while a synchronisation that has
\* listed no Service is about to replace it.
C11_Witness ==
    /\ IsSome(ret)
    /\ Get(ret)[1] = "listInstances"
    /\ Cardinality(Get(ret)[3]) = 2
    /\ syncOp.svcs = Some({})
    /\ IsSome(syncOp.deps)

(***************************************************************************)
(* Claims about the operations of the directory (checked under SpecOps).   *)
(***************************************************************************)
\* The call that returns in this step is removeInstance, with this value.
RemoveReturns(value) ==
    /\ IsSome(ret')
    /\ Get(ret')[1] = "removeInstance"
    /\ Get(ret')[3] = value

\* C12: when removeInstance(id) returns true, the Service and the Deployment of
\* the instance are gone from the cluster and the directory does not hold id;
\* when id is not in the directory it returns false, nothing is asked of the
\* cluster and the directory is as before; no record ever has the status "deleting".
C12_RemoveInstance ==
    [][/\ RemoveReturns(TRUE)
          => LET id == Get(ret')[2]
             IN  /\ id \notin DOMAIN instances'
                 /\ \A sv \in services' :
                       sv.label # Some(id) /\ sv.name # Some(AgentPrefix \o id)
                 /\ \A d \in deployments' :
                       d.label # Some(id) /\ d.name # Some(AgentPrefix \o id)
       /\ RemoveReturns(FALSE)
          => /\ Get(ret')[2] \notin DOMAIN instances
             /\ UNCHANGED <<instances, services, deployments>>
       /\ (removeOp = None /\ IsSome(removeOp'))
          => Get(removeOp').id \in DOMAIN instances
       /\ \A id \in DOMAIN instances' : instances'[id].status # "deleting"]_vars

\* removeInstance has returned true for one of two instances.
C12_Witness ==
    /\ ret = Some(<<"removeInstance", <<"a">>, TRUE>>)
    /\ DOMAIN instances = {<<"b">>}
    /\ fate[<<"a">>] = "removed"

(***************************************************************************)
(* Claim about the response rewriter (checked under SpecLocation).         *)
(***************************************************************************)
\* The part of the upstream Location after the upstream base path.
LocSuffix == SliceFrom(Get(locIn), Len(locCtx.upstreamBase))

Rewritten ==
    /\ locOut[1] = "done"
    /\ StartsWith(Get(locIn), locCtx.upstreamBase)

NoPathInSuffix == LocSuffix = <<>> \/ Head(LocSuffix) \in {"?", "#"}

ImagePullWaiting(i) ==
    LET st == pod.containerStatuses[i]
    IN  /\ IsSome(st.waiting)
        /\ IsSome(Get(st.waiting).reason)
        /\ Get(Get(st.waiting).reason) \in ImagePullReasons

\* C8: if any container of the pod, whichever its position, waits with reason
\* ErrImagePull, ImagePullBackOff or InvalidImageName, the status is "error" and the
\* message is that container's waiting message or reason, whatever the phase and
\* the other containers.
C8_AnyImagePullIsError ==
    (derived[1] = "done" /\ \E i \in DOMAIN pod.containerStatuses : ImagePullWaiting(i))
        => /\ derived[2].status = "error"
           /\ \E i \in DOMAIN pod.containerStatuses :
                 /\ ImagePullWaiting(i)
                 /\ LET w == Get(pod.containerStatuses[i].waiting)
                    IN  derived[2].statusMessage = OrElse(w.message, w.reason)

RunningWithoutImagePull ==
    /\ derived[1] = "done"
    /\ pod.phase = Some("Running")
    /\ \A i \in DOMAIN pod.containerStatuses : ~ImagePullWaiting(i)

\* The status does not depend on the pod's message and reason.
StatusOfPhaseAndContainers ==
    derived[1] = "done"
        => derived[2].status
               = deriveStatusFromPod([pod EXCEPT !.message = None, !.reason = None]).status

\* C9 as stated: a Running pod with no image-pull waiting reason is "running"
\* exactly when all its container statuses are ready, for every list of container
\* statuses, and "starting" otherwise; the status depends on phase and containers only.
C9_RunningIffAllReady ==
    /\ RunningWithoutImagePull
           => derived[2].status
                  = IF \A i \in DOMAIN pod.containerStatuses : pod.containerStatuses[i].ready
                    THEN "running" ELSE "starting"
    /\ StatusOfPhaseAndContainers

\* C9 as amended: "running" exactly when the list of container statuses is not
\* empty and all of them are ready.
C9_RunningIffNonEmptyAllReady ==
    /\ RunningWithoutImagePull
           => derived[2].status
                  = IF /\ pod.containerStatuses # <<>>
                       /\ \A i \in DOMAIN pod.containerStatuses : pod.containerStatuses[i].ready
                    THEN "running" ELSE "starting"
    /\ StatusOfPhaseAndContainers

C9_Witness ==
    /\ pod.phase = Some("Running")
    /\ pod.message = Some("pod message")
    /\ Len(pod.containerStatuses) = 2
    /\ \A i \in 1..2 : pod.containerStatuses[i].ready
    /\ derived[1] = "done"
    /\ derived[2].status = "running"

(***************************************************************************)
(* Claims about the directory (checked under SpecDir).                     *)
(***************************************************************************)
\* C10: two runs of syncInstancesFromCluster in a row that list the same
\* Services and Deployments, with no other operation on the directory in between,
\* leave the same directory: same keys, same records.
C10_SyncTwiceSameDirectory ==
    (/\ Len(syncLog) = 2
     /\ syncLog[1].svcs = syncLog[2].svcs
     /\ syncLog[1].deps = syncLog[2].deps)
        => /\ DOMAIN syncLog[2].dir = DOMAIN syncLog[1].dir
           /\ \A id \in DOMAIN syncLog[1].dir : syncLog[2].dir[id] = syncLog[1].dir[id]
           /\ instances = syncLog[1].dir

C10_Witness ==
    /\ Len(syncLog) = 2
    /\ syncLog[1].svcs = syncLog[2].svcs
    /\ syncLog[1].deps = syncLog[2].deps
    /\ DOMAIN syncLog[2].dir = DirIds
    /\ DOMAIN instances = DirIds
    /\ now = MaxClock

(***************************************************************************)
(* C3: extractSubdomain, after dropping the port and lower-casing, returns *)
(* the label of a host "<label>.<base>" with a non-empty label, and no     *)
(* candidate for the base itself, for a host that ends with the base       *)
(* without a separating dot, and for a host that does not end in           *)
(* ".<base>".                                                              *)
(***************************************************************************)
C3_SubdomainLabel ==
    subOut[1] = "done" =>
        LET h == ToLowerCase(SplitHead(subHost, ":"))
            b == ToLowerCase(subBase)
            dotBase == <<".">> \o b
        IN  /\ (EndsWith(h, dotBase) /\ Len(h) > Len(dotBase))
                   => subOut[2] = Some(SubSeq(h, 1, Len(h) - Len(dotBase)))
            /\ h = b => subOut[2] = None
            /\ (EndsWith(h, b) /\ ~EndsWith(h, dotBase)) => subOut[2] = None
            /\ ~EndsWith(h, dotBase) => subOut[2] = None

\* A mixed-case host with a port resolves to its lower-cased label.
C3_Witness ==
    /\ subOut = <<"done", Some(<<"a">>)>>
    /\ subHost = <<"A", ".", "R", ":">>
    /\ subBase = <<"r">>

(***************************************************************************)
(* C4 as stated: on the request URL as received, a path                    *)
(* "/instances/<id>/<rest>" yields id and "/" + rest ("/" when rest is     *)
(* empty) with the query string appended, and any other path yields no     *)
(* candidate.                                                              *)
(***************************************************************************)
PathClaim(path, search, out) ==
    LET lead == InstancesPrefix \o <<"/">>
        rem  == SliceFrom(path, Len(lead))
        id   == SplitHead(rem, "/")
        rest == SliceFrom(rem, Len(id) + 1)
    IN  IF StartsWith(path, lead) /\ id # <<>>
        THEN out = <<"done", Some([instanceId  |-> id,
                                   proxiedPath |-> <<"/">> \o rest \o search])>>
        ELSE out = <<"done", None>>

RawPath(reqUrl) == SplitHead(SplitHead(reqUrl, "#"), "?")
RawSearch(reqUrl) ==
    LET noFragment == SplitHead(reqUrl, "#")
        q == IF IndexOf(noFragment, "?") = 0 THEN <<>>
             ELSE SliceFrom(noFragment, IndexOf(noFragment, "?"))
    IN  IF q = <<>> THEN <<>> ELSE <<"?">> \o q

ConventionalNames(record) ==
    /\ record.deploymentName = AgentPrefix \o record.id
    /\ record.serviceName = AgentPrefix \o record.id
    /\ record.serviceHost = record.serviceName \o <<".">> \o record.namespace \o ClusterLocal

CatalogNames == {row.name : row \in catalog}

PostAnswersAtOnce ==
    apiReq = None /\ createOp = None /\ apiReq' = None /\ catalog' = catalog /\ IsSome(apiRes')

C14_OnlyAllowedImages ==
    [][ /\ (createOp = None /\ IsSome(createOp')) =>
               /\ Get(createOp').input.image \in catalog
               /\ Get(apiReq').req.image = JsonString(Get(createOp').input.image.name)
        /\ (deployments' # deployments \/ services' # services \/ instances' # instances) =>
               /\ IsSome(createOp)
               /\ IsSome(apiReq)
               /\ Get(apiReq).req.image = JsonString(Get(createOp).input.image.name)
        /\ (PostAnswersAtOnce /\ \A n \in CatalogNames : Get(apiRes').req.image # JsonString(n)) =>
               /\ Get(apiRes').status = 400
               /\ UNCHANGED <<instances, services, deployments, createOp, usedIds>>
      ]_vars

\* An image that was allowed before is refused after its row was deleted, with an
\* instance of it still in the directory.
C14_Witness ==
    /\ IsSome(apiRes)
    /\ Get(apiRes).status = 400
    /\ Get(apiRes).body = "image not allowed"
    /\ Get(apiRes).req.image = JsonString("modelcontextprotocol/server")
    /\ \E id \in DOMAIN instances : instances[id].image = "modelcontextprotocol/server"

\* ---------------------------------------------------------------------------
\* C15. A forwarded request is handed to the upstream once and never again; when
\* the transport fails the client gets 502 with the body 'Proxy error: ' followed
\* by the message of the error ('unknown' when there is none); and the failure of
\* one request leaves the other request in flight as it was.
ErrorMessageOf(err) ==
    IF IsSome(err) /\ IsSome(Get(err).message) THEN Get(Get(err).message) ELSE "unknown"

C15_ProxyError ==
    [][ /\ attempts' <= 1
        /\ peer'.attempts <= 1
        /\ (pc = "forwarded" /\ resStatus' = 502) =>
               /\ pc' = "responded"
               /\ resBody' \in {"Proxy error: " \o ErrorMessageOf(err) : err \in TransportErrors}
               /\ attempts' = attempts
               /\ peer' = peer
        /\ (peer.pc = "forwarded" /\ IsSome(peer'.err)) =>
               /\ peer'.status = 502
               /\ peer'.body = "Proxy error: " \o ErrorMessageOf(Get(peer'.err))
               /\ peer'.attempts = peer.attempts
               /\ UNCHANGED <<pc, attempts, upTarget, upUrl, resStatus, resBody>>
        /\ (pc = "responded" /\ resStatus # 502) => resStatus' # 502
        /\ (peer.pc = "responded" /\ peer.status # 502) => peer'.status # 502
      ]_vars

\* The first request failed while the second was in flight, and the second was
\* answered by its upstream.
C15_Witness ==
    /\ resStatus = 502
    /\ resBody = "Proxy error: socket hang up"
    /\ peer.pc = "responded"
    /\ peer.status = 200

\* ---------------------------------------------------------------------------
\* C16. Once removeInstance(id) has returned true, id is never again a key of the
\* directory, also when a listInstances refresh that started before the removal
\* finishes after it.
C16_RemovedStaysRemoved ==
    \A id \in DirIds : fate[id] = "removed" => id \notin DOMAIN instances

\* ---------------------------------------------------------------------------
\* C17. When a sync has just completed, every instance whose createInstance
\* completed and whose Service and Deployment are still in the cluster is in the
\* directory, also when the listing of the sync was taken before the creation.
ObjectsPresent(id) ==
    /\ \E sv \in services : sv.label = Some(id)
    /\ \E d \in deployments : d.label = Some(id)

C17_CreatedSurvivesSync ==
    \A id \in DirIds :
        (syncOp = NoSync /\ syncLog # <<>> /\ fate[id] = "created" /\ ObjectsPresent(id))
            => id \in DOMAIN instances

\* ---------------------------------------------------------------------------
\* C18. createInstance is all-or-nothing: when it fails at any step, the directory
\* has no record of the generated id and no Deployment or Service of that id
\* remains in the cluster.
C18_FailedCreateLeavesNothing ==
    \A id \in DirIds :
        fate[id] = "failed" =>
            /\ id \notin DOMAIN instances
            /\ ~\E d \in deployments : d.label = Some(id)
            /\ ~\E sv \in services : sv.label = Some(id)

\* ---------------------------------------------------------------------------
\* C19. Which candidate names the instance the handler looks up.
LookedUp == pc \in {"responded", "forwarded"} /\ lookups # <<>>

\* C19, as claimed: with a path candidate the instance looked up is the one the
\* path names; the subdomain candidate is used only when there is no path
\* candidate.
C19_PathCandidateFirst ==
    LookedUp =>
        IF NoPathCandidate
        THEN lookups[1] = Get(extractSubdomain(hostHeader, baseDomain))
        ELSE lookups[1] = Get(extractInstancePath(inboundUrl)).instanceId

\* C19, as the handler resolves: with a subdomain candidate the instance looked up
\* is the one the subdomain names; the path candidate is used only when there is
\* no subdomain candidate.
C19_SubdomainCandidateFirst ==
    LookedUp =>
        LET subdomain == extractSubdomain(hostHeader, baseDomain)
        IN  IF IsSome(subdomain)
            THEN lookups[1] = Get(subdomain)
            ELSE /\ ~NoPathCandidate
                 /\ lookups[1] = Get(extractInstancePath(inboundUrl)).instanceId

\* A request with both candidates, naming two instances of the directory, was
\* forwarded to the one of the subdomain.
C19_Witness ==
    /\ variant = "direct"
    /\ pc = "forwarded"
    /\ ~NoPathCandidate
    /\ extractSubdomain(hostHeader, baseDomain) = Some(<<"x", "y", "z">>)
    /\ Get(extractInstancePath(inboundUrl)).instanceId = <<"a">>
    /\ lookups = << <<"x", "y", "z">> >>

\* ---------------------------------------------------------------------------
\* C20. While listInstances calls are in flight, alone or overlapping, the record
\* getInstance(id) returns is the stored record, and a stored record is always
\* whole: it has every field of the record createInstance inserted, and its status
\* and statusMessage are either those of the inserted record or the two values
\* of one answer of the pod listing. A refresh in flight changes the
\* directory only when it completes, and no step changes a field of a record
\* other than status and statusMessage.
RecordFields == DOMAIN NewInstanceRecord(<<"a">>, ImageOfPort(3000), 3000, None, 0, "starting")

BaseOf(record) == [f \in DOMAIN record \ {"status", "statusMessage"} |-> record[f]]

StatusPairOf(record) ==
    <<record.status, IF "statusMessage" \in DOMAIN record THEN record.statusMessage ELSE None>>

\* The pairs one pod listing can give, by the status rules.
DerivedPairs ==
    {IF answer[1] = "error" THEN <<"error", Some(answer[2])>>
     ELSE IF answer[2] = <<>> THEN <<"starting", None>>
     ELSE LET d == deriveStatusFromPod(Get(getLatestPod(answer[2])).status)
          IN  <<d.status, d.statusMessage>> : answer \in PodAnswers}

WholeRecord(record) ==
    /\ RecordFields \subseteq DOMAIN record
    /\ StatusPairOf(record) \in DerivedPairs \cup {<<"starting", None>>}

RefreshInFlight == \E k \in 1..MaxLists : listOps[k].pc = "pending"

C20_RefreshIsAtomic ==
    [][ /\ \A id \in DOMAIN instances' :
               /\ WholeRecord(instances'[id])
               /\ instances'[id].id = id
        /\ \A id \in DOMAIN instances \cap DOMAIN instances' :
               BaseOf(instances'[id]) = BaseOf(instances[id])
        /\ (listOps' # listOps /\ \A k \in 1..MaxLists : listOps'[k].pc # "done" \/ listOps[k].pc = "done")
               => instances' = instances
        /\ (IsSome(ret') /\ Get(ret')[1] = "getInstance") =>
               /\ instances' = instances
               /\ Get(ret')[3] = IF Get(ret')[2] \in DOMAIN instances
                                 THEN Some(instances[Get(ret')[2]]) ELSE None
      ]_vars

\* getInstance returns a refreshed record of one call while the other call is
\* still waiting for its pod listings.
C20_Witness ==
    /\ listOps[1].pc = "done"
    /\ listOps[2].pc = "pending"
    /\ <<"a">> \in DOMAIN listOps[2].currentInstances
    /\ IsSome(ret)
    /\ Get(ret)[1] = "getInstance"
    /\ IsSome(Get(ret)[3])
    /\ StatusPairOf(Get(Get(ret)[3])) = <<"error", Some("first message")>>

\* ---------------------------------------------------------------------------
\* C21. A cluster query error while hydrating an instance does not make the
\* directory operation throw: getInstanceOrLoad completes.
C21_QueryErrorDoesNotThrow ==
    ~(IsSome(ret) /\ Get(ret)[1] = "getInstanceOrLoad throws")

\* ---------------------------------------------------------------------------
\* C22. getInstanceOrLoad(id) returns the stored record without a cluster call
\* when the directory has id, and starts a hydration only when it has not; when
\* the cluster answers 404 for the Service or the Deployment, it returns absent
\* and the directory is unchanged.
LoadReturns == IsSome(ret') /\ Get(ret')[1] \in {"getInstanceOrLoad", "getInstanceOrLoad throws"}

C22_GetInstanceOrLoad ==
    [][ /\ (LoadReturns /\ hydrateOps' = hydrateOps) =>
               /\ Get(ret')[2] \in DOMAIN instances
               /\ Get(ret')[3] = Some(instances[Get(ret')[2]])
               /\ UNCHANGED <<instances, services, deployments>>
        /\ \A k \in 1..MaxHydrations :
               /\ (hydrateOps[k] = None /\ hydrateOps'[k] # None) =>
                      Get(hydrateOps'[k]).id \notin DOMAIN instances
               /\ ( /\ LoadReturns
                    /\ IsSome(hydrateOps[k])
                    /\ Get(hydrateOps[k]).result = <<"pending">>
                    /\ IsSome(hydrateOps'[k])
                    /\ Get(hydrateOps'[k]).result # <<"pending">>
                    /\ <<"404">> \in {Get(hydrateOps[k]).svc, Get(hydrateOps[k]).dep} ) =>
                      /\ ret' = Some(<<"getInstanceOrLoad", Get(hydrateOps[k]).id, None>>)
                      /\ instances' = instances
      ]_vars

\* After a restart, the instance whose Service was deleted is asked for: the
\* Deployment is found, the Service is a 404, and the call returns absent.
C22_Witness ==
    /\ ret = Some(<<"getInstanceOrLoad", <<"a">>, None>>)
    /\ fate[<<"a">>] = "created"
    /\ <<"a">> \notin DOMAIN instances
    /\ \E d \in deployments : d.label = Some(<<"a">>)
    /\ ~\E sv \in services : sv.label = Some(<<"a">>)

\* ---------------------------------------------------------------------------
\* C23. A 404 of the cluster is handled as 'object absent' and is not thrown to
\* the caller: removeInstance on an entry whose Service or Deployment is already
\* gone still completes.
C23_NotFoundIsNotThrown ==
    ~(IsSome(ret) /\ Get(ret)[1] = "removeInstance throws")

\* ---------------------------------------------------------------------------
\* C24. Every request that hits a failure is answered: when the cluster rejects a
\* deletion during DELETE /instances/:id, the request gets a response, and the
\* failure does not end as an unhandled rejection.
C24_EveryFailureIsAnswered ==
    IsSome(apiRes) => Get(apiRes).status # 0

\* ---------------------------------------------------------------------------
\* C25. In the tunnel variant, a header the Kubernetes configuration injects is
\* sent upstream with the inbound value when the inbound request carries that
\* header, and with the injected value only when it does not.
C25_InboundHeadersWin ==
    hdrUpstream[1] = "sent" =>
        \A i \in 1..Len(hdrInjected) :
            LET name == LowerName(hdrInjected[i][1])
            IN  IsSome(hdrInjected[i][2]) =>
                    /\ name \in DOMAIN hdrUpstream[2]
                    /\ hdrUpstream[2][name] = IF name \in DOMAIN hdrInbound
                                              THEN hdrInbound[name]
                                              ELSE Get(hdrInjected[i][2])

\* ---------------------------------------------------------------------------
\* C26. A request of method OPTIONS is answered locally with 204 and the CORS
\* headers: the proxy never forwards it upstream and the control API never
\* passes it on to a route handler.
C26_OptionsAnsweredLocally ==
    reqMethod = "OPTIONS" =>
        /\ pc # "forwarded"
        /\ attempts = 0
        /\ pc = "responded" => resStatus = 204
        /\ corsRes[1] # "next"

\* ---------------------------------------------------------------------------
\* C27. When a synchronisation completes, every identifier of the directory is
\* the radome.instance label of a Service of its listing, and an entry the
\* directory held before for which the listing has no such Service is gone.
ServiceLabels(svcs) == {Get(sv.label) : sv \in {x \in svcs : IsSome(x.label)}}

C27_SyncKeepsListedServicesOnly ==
    [][SyncReplaces
          => /\ DOMAIN instances' \subseteq ServiceLabels(Get(syncOp.svcs))
             /\ \A id \in DOMAIN instances :
                    id \notin ServiceLabels(Get(syncOp.svcs)) => id \notin DOMAIN instances']_vars

\* A created instance whose Service was deleted behind the control plane is no
\* longer in the directory after a synchronisation that listed its Deployment
\* alone.
C27_Witness ==
    /\ syncLog # <<>>
    /\ \E id \in DirIds :
          /\ fate[id] = "created"
          /\ id \notin DOMAIN instances
          /\ id \notin ServiceLabels(syncLog[Len(syncLog)].svcs)
          /\ \E d \in syncLog[Len(syncLog)].deps : d.label = Some(id)

\* ---------------------------------------------------------------------------
\* C28. Two getInstanceOrLoad calls for the same absent id whose reads all saw
\* the cluster as it is (no read failed, the cluster did not change) end alike:
\* both return the same outcome, the directory holds for the id the record a
\* single hydration stores, and the completion of a call changes no entry but
\* that of its id.
SeesCluster(op) ==
    /\ op.svc[1] # "error"
    /\ op.dep[1] # "error"
    /\ op.svc = <<"pending">> \/ op.svc \in ReadNamed(services, AgentPrefix \o op.id)
    /\ op.dep = <<"pending">> \/ op.dep \in ReadNamed(deployments, AgentPrefix \o op.id)

BothCompleted ==
    /\ \A k \in 1..MaxHydrations :
          /\ IsSome(hydrateOps[k])
          /\ Get(hydrateOps[k]).result # <<"pending">>
          /\ SeesCluster(Get(hydrateOps[k]))

\* What one hydration of id stores or returns against the present cluster.
SingleHydration(id) ==
    LET svc == CHOOSE a \in ReadNamed(services, AgentPrefix \o id) : a[1] # "error"
        dep == CHOOSE a \in ReadNamed(deployments, AgentPrefix \o id) : a[1] # "error"
    IN  HydrateOutcome([id |-> id, svc |-> svc, dep |-> dep, result |-> <<"pending">>])

HydrateCompletes(k) ==
    /\ IsSome(hydrateOps[k])
    /\ IsSome(hydrateOps'[k])
    /\ Get(hydrateOps[k]).result = <<"pending">>
    /\ Get(hydrateOps'[k]).result # <<"pending">>

C28_OverlappingHydrationsAgree ==
    /\ [](BothCompleted =>
            /\ Get(hydrateOps[1]).result = Get(hydrateOps[2]).result
            /\ Get(hydrateOps[1]).result = SingleHydration(Get(hydrateOps[1]).id))
    /\ [][\A k \in 1..MaxHydrations :
            HydrateCompletes(k) =>
                LET id      == Get(hydrateOps[k]).id
                    outcome == Get(hydrateOps'[k]).result
                IN  /\ outcome[1] # "store" => instances' = instances
                    /\ outcome[1] = "store" =>
                          /\ DOMAIN instances' = DOMAIN instances \cup {id}
                          /\ instances'[id] = outcome[2]
                          /\ ret' = Some(<<"getInstanceOrLoad", id, Some(instances'[id])>>)
                    /\ \A other \in DOMAIN instances \ {id} :
                           instances'[other] = instances[other]]_vars

\* Both calls were in flight together and each has stored and returned the
\* record of the instance, next to the entry of another instance.
C28_Witness ==
    /\ BothCompleted
    /\ Get(hydrateOps[1]).result[1] = "store"
    /\ Get(hydrateOps[2]).result[1] = "store"
    /\ Get(hydrateOps[1]).id \in DOMAIN instances
    /\ instances[Get(hydrateOps[1]).id] = Get(hydrateOps[2]).result[2]
    /\ \E other \in DOMAIN instances : other # Get(hydrateOps[1]).id

CarriedToken(header) ==
    IF IsSome(header) /\ StartsWith(Get(header), Bearer \o <<" ">>)
    THEN Some(Trim(SubSeq(Get(header), Len(Bearer) + 2, Len(Get(header)))))
    ELSE None

LiveToken(token) ==
    /\ token \in DOMAIN issuedTo
    /\ token \notin loggedOut
    /\ \E u \in users : u.id = issuedTo[token]

BehindAuthenticate == {"POST /auth/logout", "GET /images", "POST /users"}

C30_SessionLifecycle ==
    [][(authRes'.n # authRes.n /\ authRes'.route \in BehindAuthenticate) =>
          LET carried == CarriedToken(authRes'.header)
          IN  /\ authRes'.next <=> (IsSome(carried) /\ LiveToken(Get(carried)))
              /\ ~authRes'.next => (authRes'.status = 401 /\ ~authRes'.ran)
              /\ authRes'.ran => authRes'.next
              /\ (authRes'.route = "POST /auth/logout" /\ authRes'.next) =>
                    /\ authRes'.status = 204
                    /\ Get(carried) \notin DOMAIN sessions'
                    /\ loggedOut' = loggedOut \cup {Get(carried)}
                    /\ \A other \in DOMAIN sessions \ {Get(carried)} :
                           other \in DOMAIN sessions' /\ sessions'[other] = sessions[other]
              /\ authRes'.route # "POST /auth/logout" => sessions' = sessions]_vars

\* A request carries a token that was logged out and is answered 401 without its
\* handler running, while the session of another token is still in the table.
C30_Witness ==
    /\ authRes.route = "GET /images"
    /\ authRes.status = 401
    /\ ~authRes.ran
    /\ IsSome(CarriedToken(authRes.header))
    /\ Get(CarriedToken(authRes.header)) \in loggedOut
    /\ \E other \in DOMAIN sessions : other \notin loggedOut

=============================================================================
